---- MODULE Spec2Model ----
(***************************************************************************)
(* The stable-memory allocator of ic-stable-memory                          *)
(* (src/mem/allocator.rs over src/primitive/s_slice.rs), on a 64-bit host,  *)
(* and the binary heap of src/collections/binary_heap.rs.                   *)
(*                                                                          *)
(* The backing store is a byte array.  It is kept as the finite map of its  *)
(* non-zero bytes (a byte that is not in the map reads as 0), so that a     *)
(* store of hundreds of pages stays a small value.  Buffers (Rust Vec<u8>,  *)
(* [u8; N]) are kept the same way: a length and the map of non-zero bytes.  *)
(*                                                                          *)
(* u64 values are Integers.  Every value below 2^31 - 2 is itself;          *)
(* u64::MAX is EMPTY_PTR, the largest Integer of the model, and any other   *)
(* value that does not fit is HUGE.  The byte encodings are exact for the   *)
(* values below 2^31 - 2 and for u64::MAX.                                  *)
(*                                                                          *)
(* A handler of the program is one operator from a store state (a record    *)
(* s: mem, pages, spawned, cap, trap) to the store state after it; an       *)
(* operator that also returns a value returns [s |-> ..., r |-> ...].       *)
(* A failed assert!, a failed unwrap of a state-changing step and trap()    *)
(* set s.trap; every later step of the same handler is skipped: an          *)
(* operator that changes the store passes a store with s.trap on unchanged. *)
(* A handler that returns a value returns [s |-> store, r |-> value].       *)
(***************************************************************************)
EXTENDS Integers, Sequences, FiniteSets, TLC

VARIABLES
    mem,        \* backing store: the rows of bytes that are not all zero
    pages,      \* stable::size_pages()
    cap,        \* the host's limit on the size of the store, in pages
    spawned,    \* number of on_low_stable_memory() calls enqueued by spawn()
    sma,        \* the allocator handle SSlice<StableMemoryAllocator>; in SpecHeap
                \* the SBinaryHeap { ty, arr }
    handles,    \* client side: the handles returned by allocate and not yet given back
    last,       \* what the last public call was given and what it returned
    calls       \* client side: the number of public calls made so far

vars == <<mem, pages, cap, spawned, sma, handles, last, calls>>

----------------------------------------------------------------------------
(* Program constants *)

PTR_SIZE == 8
CELL_META_SIZE == 8
CELL_MIN_SIZE == PTR_SIZE * 2
\* u64::MAX, the word whose eight bytes are 255: the largest number TLC holds
\* stands for it
EMPTY_PTR == 2147483647
\* any other u64 that is beyond the addresses and sizes of the model
HUGE == EMPTY_PTR - 1
MAGIC == <<83, 77, 65, 77>>
SEG_CLASS_PTRS_COUNT == 60
CUSTOM_DATA_PTRS_COUNT == 4
DEFAULT_MAX_ALLOCATION_PAGES == 180
DEFAULT_MAX_GROW_PAGES == 0
PAGE_SIZE_BYTES == 65536

SIZE ==
    Len(MAGIC)
    + SEG_CLASS_PTRS_COUNT * PTR_SIZE
    + PTR_SIZE * 2
    + PTR_SIZE
    + 1
    + PTR_SIZE
    + CUSTOM_DATA_PTRS_COUNT * PTR_SIZE

Start == "Start"
End == "End"

----------------------------------------------------------------------------
(* Bounds of the model *)

MaxInitPages == 1
MaxLive == 3
MaxCalls == 5

----------------------------------------------------------------------------
(* Buffers and u64 <-> bytes *)

\* the buffer of length len whose byte i is f[i]
MkBuf(len, f) ==
    [len |-> len, at |-> [i \in {j \in 0..(len - 1) : f[j] # 0} |-> f[i]]]

\* vec![0u8; len]
ZeroBuf(len) == [len |-> len, at |-> <<>>]

\* &[u8] literal given as a sequence
SeqBuf(q) == MkBuf(Len(q), [i \in 0..(Len(q) - 1) |-> q[i + 1]])

ByteAt(buf, i) == IF i \in DOMAIN buf.at THEN buf.at[i] ELSE 0

\* byte i (0 = least significant) of the u64 w
U64Byte(w, i) ==
    IF w = EMPTY_PTR THEN 255
    ELSE IF i = 0 THEN w % 256
    ELSE IF i = 1 THEN (w \div 256) % 256
    ELSE IF i = 2 THEN (w \div 65536) % 256
    ELSE IF i = 3 THEN (w \div 16777216) % 256
    ELSE 0

to_le_bytes(w) == MkBuf(PTR_SIZE, [i \in 0..(PTR_SIZE - 1) |-> U64Byte(w, i)])

from_le_bytes(buf) ==
    LET b(i) == ByteAt(buf, i)
    IN  IF \A i \in 0..7 : b(i) = 255 THEN EMPTY_PTR
        ELSE IF b(3) >= 128 \/ \E i \in 4..7 : b(i) # 0 THEN HUGE
        ELSE b(0) + 256 * b(1) + 65536 * b(2) + 16777216 * b(3)

\* u64 subtraction; a wrapped result does not fit the model's range
u64_sub(a, b) == IF a >= b THEN a - b ELSE HUGE

\* `as u32`
as_u32(w) == IF w >= HUGE THEN HUGE ELSE w

----------------------------------------------------------------------------
(* Backing store: utils::mem_context::stable *)

stable_size_pages(s) == s.pages

\* The map mem holds the store in rows of ROW bytes: mem[k] is the sequence of
\* the bytes at addresses k * ROW .. k * ROW + ROW - 1, and a row of zero bytes
\* is not in the map.
ROW == PTR_SIZE

ZeroRow == [j \in 1..ROW |-> 0]

RowOf(m, k) == IF k \in DOMAIN m THEN m[k] ELSE ZeroRow

\* the byte at address a
ByteOf(m, a) == RowOf(m, a \div ROW)[(a % ROW) + 1]

\* the rows that have a byte in [addr, addr + len)
RowsIn(m, addr, len) ==
    IF len <= 8 * ROW
    THEN {k \in (addr \div ROW)..((addr + len - 1) \div ROW) : k \in DOMAIN m}
    ELSE {k \in DOMAIN m : k * ROW + ROW > addr /\ k * ROW < addr + len}

stable_write(s, addr, buf) ==
    LET m == s.mem
        touched == RowsIn(m, addr, buf.len) \cup {(addr + i) \div ROW : i \in DOMAIN buf.at}
        row(k) == [j \in 1..ROW |->
                    LET a == k * ROW + j - 1
                    IN  IF a >= addr /\ a < addr + buf.len
                        THEN ByteAt(buf, a - addr)
                        ELSE RowOf(m, k)[j]]
        rows == [k \in touched |-> row(k)]
        zero == {k \in touched : rows[k] = ZeroRow}
        upd == [k \in touched \ zero |-> rows[k]]
    IN  [s EXCEPT !.mem = IF zero = {} THEN upd @@ m
                          ELSE upd @@ [k \in DOMAIN m \ zero |-> m[k]]]

stable_read(s, addr, len) ==
    LET m == s.mem
        hit == IF len <= 8 * ROW
               THEN {a \in addr..(addr + len - 1) : ByteOf(m, a) # 0}
               ELSE {a \in UNION {{k * ROW + j : j \in 0..(ROW - 1)} : k \in RowsIn(m, addr, len)} :
                        a >= addr /\ a < addr + len /\ ByteOf(m, a) # 0}
    IN  [len |-> len, at |-> [i \in {a - addr : a \in hit} |-> ByteOf(m, addr + i)]]

\* stable::grow: Ok(previous size), or Err when the host refuses.  The host
\* refuses a request that would take the store beyond s.cap pages.
stable_grow(s, new_pages) ==
    IF s.pages + new_pages <= s.cap
    THEN [s |-> [s EXCEPT !.pages = @ + new_pages], ok |-> TRUE, r |-> s.pages]
    ELSE [s |-> s, ok |-> FALSE, r |-> 0]

Trap(s) == [s EXCEPT !.trap = TRUE]

\* a trap inside a handler that returns a value: there is no value
Fail(s) == [s |-> Trap(s), r |-> [ok |-> FALSE, some |-> FALSE]]

\* return v from the store s
Ret(s, v) == IF s.trap THEN Fail(s) ELSE [s |-> s, r |-> v]

\* Result<T, E>
Ok(v) == [ok |-> TRUE, v |-> v]
Err(v) == [ok |-> FALSE, v |-> v]

----------------------------------------------------------------------------
(* primitive::s_slice::SSlice<T> *)

None == [some |-> FALSE, panic |-> FALSE]
Some(v) == [some |-> TRUE, panic |-> FALSE, v |-> v]
\* the integer underflow of `ptr -= CELL_META_SIZE` in from_ptr
Panic == [some |-> FALSE, panic |-> TRUE]

\* the in-memory handle: Self { ptr, size, allocated }
SSlice(ptr, size, allocated) == [ptr |-> ptr, size |-> size, allocated |-> allocated]

get_ptr(self) == self.ptr

get_meta(self) == <<self.size, self.allocated>>

get_size_bytes(self) == get_meta(self)[1]

get_total_size_bytes(self) == get_size_bytes(self) + CELL_META_SIZE * 2

get_next_neighbor_ptr(self) == get_ptr(self) + (CELL_META_SIZE * 2 + get_meta(self)[1])

\* the boundary tag: bit 63 is the allocated flag, the low bits the size
encode_meta(size, allocated) ==
    MkBuf(CELL_META_SIZE,
          [i \in 0..(CELL_META_SIZE - 1) |->
              IF i = CELL_META_SIZE - 1
              THEN (IF allocated THEN 128 ELSE 0) + (U64Byte(size, i) % 128)
              ELSE U64Byte(size, i)])

read_meta(s, ptr) ==
    LET meta == stable_read(s, ptr, CELL_META_SIZE)
        top == ByteAt(meta, CELL_META_SIZE - 1)
        allocated == top >= 128
        \* encoded_size & FREE
        masked == MkBuf(CELL_META_SIZE,
                        [i \in 0..(CELL_META_SIZE - 1) |->
                            IF i = CELL_META_SIZE - 1 THEN top % 128 ELSE ByteAt(meta, i)])
    IN  <<IF allocated THEN from_le_bytes(masked) ELSE from_le_bytes(meta), allocated>>

\* write_meta that leaves the footer word as it was
write_meta_header_only(s, ptr, size, allocated) ==
    stable_write(s, ptr, encode_meta(size, allocated))

write_meta(s, ptr, size, allocated) ==
    LET meta == encode_meta(size, allocated)
    IN  stable_write(stable_write(s, ptr, meta), ptr + (CELL_META_SIZE + size), meta)

\* _write_bytes without the assertion on offset + data.len()
_write_bytes_unchecked(s, self, offset, data) ==
    IF s.trap THEN s
    ELSE stable_write(s, get_ptr(self) + (CELL_META_SIZE + offset), data)

_write_bytes(s, self, offset, data) ==
    IF s.trap THEN s
    ELSE IF ~(offset + data.len <= get_size_bytes(self)) THEN Trap(s)
    ELSE stable_write(s, get_ptr(self) + (CELL_META_SIZE + offset), data)

_write_word(s, self, offset, word) == _write_bytes(s, self, offset, to_le_bytes(word))

\* A panic inside an operator that only reads: its value is undefined, and a
\* model-checking run that evaluates it stops with an error.
Abort == CHOOSE x \in {} : TRUE

_read_bytes(s, self, offset, len) ==
    IF ~(len + offset <= get_size_bytes(self)) THEN Abort
    ELSE stable_read(s, get_ptr(self) + (CELL_META_SIZE + offset), len)

_read_word(s, self, offset) == from_le_bytes(_read_bytes(s, self, offset, PTR_SIZE))

\* SSlice::new: Self::write_meta, then the handle SSlice(ptr, size, allocated)
new(s, ptr, size, allocated) ==
    IF s.trap THEN s
    ELSE IF ~(size >= CELL_MIN_SIZE) THEN Trap(s)
    ELSE IF ~(size < HUGE) THEN Trap(s)
    ELSE IF ~(ptr < stable_size_pages(s) * PAGE_SIZE_BYTES) THEN Trap(s)
    ELSE write_meta(s, ptr, size, allocated)

new_total_size(s, ptr, total_size, allocated) ==
    IF total_size < CELL_META_SIZE * 2 THEN Trap(s)
    ELSE new(s, ptr, total_size - CELL_META_SIZE * 2, allocated)

\* from_ptr, Side::Start: the cell whose header word m is at ptr
cell_at(ptr, m) ==
    IF m[1] < CELL_MIN_SIZE THEN None
    ELSE Some(SSlice(ptr, m[1], m[2]))

\* from_ptr, Side::End: the cell whose footer word m is at ptr
cell_before(ptr, m) ==
    IF m[1] < CELL_MIN_SIZE THEN None
    ELSE IF ptr < m[1] + CELL_META_SIZE THEN None
    ELSE Some(SSlice(ptr - (m[1] + CELL_META_SIZE), m[1], m[2]))

from_ptr(s, ptr, side) ==
    IF ptr >= stable_size_pages(s) * PAGE_SIZE_BYTES \/ ptr = EMPTY_PTR THEN None
    ELSE IF side = Start THEN cell_at(ptr, read_meta(s, ptr))
    ELSE IF ptr < CELL_META_SIZE THEN Panic
    ELSE cell_before(ptr - CELL_META_SIZE, read_meta(s, ptr - CELL_META_SIZE))

unwrap(opt) == IF opt.some THEN opt.v ELSE Abort

set_allocated(s, self, allocated) ==
    IF s.trap THEN s ELSE write_meta(s, get_ptr(self), get_meta(self)[1], allocated)

get_neighbor(s, self, side) ==
    IF side = Start THEN from_ptr(s, get_ptr(self), End)
    ELSE from_ptr(s, get_next_neighbor_ptr(self), Start)


\* assert_allocated(expected, val) holds
assert_allocated(self, expected, val) ==
    LET actual == IF val.some THEN val.v ELSE get_meta(self)[2]
    IN  actual = expected

\* split that turns down a remainder of exactly CELL_MIN_SIZE
split_min_excluded(s, self, size_first) ==
    LET size == get_meta(self)[1]
        first == SSlice(get_ptr(self), size_first, FALSE)
        size_second == size - size_first - CELL_META_SIZE * 2
    IN  IF s.trap THEN Fail(s)
        ELSE IF ~(size_first >= CELL_MIN_SIZE) THEN Fail(s)
        ELSE IF ~assert_allocated(self, FALSE, Some(get_meta(self)[2])) THEN Fail(s)
        ELSE IF size <= size_first + CELL_MIN_SIZE + CELL_META_SIZE * 2
        THEN [s |-> s, r |-> Err(self)]
        ELSE Ret(new(new(s, get_ptr(self), size_first, FALSE),
                     get_next_neighbor_ptr(first), size_second, FALSE),
                 Ok(<<first, SSlice(get_next_neighbor_ptr(first), size_second, FALSE)>>))

\* split: Ok((first, second)) or Err(self)
split(s, self, size_first) ==
    LET size == get_meta(self)[1]
        first == SSlice(get_ptr(self), size_first, FALSE)
        size_second == size - size_first - CELL_META_SIZE * 2
        second == SSlice(get_next_neighbor_ptr(first), size_second, FALSE)
    IN  IF s.trap THEN Fail(s)
        ELSE IF ~(size_first >= CELL_MIN_SIZE) THEN Fail(s)
        ELSE IF ~assert_allocated(self, FALSE, Some(get_meta(self)[2])) THEN Fail(s)
        ELSE IF size < size_first + CELL_MIN_SIZE + CELL_META_SIZE * 2
        THEN [s |-> s, r |-> Err(self)]
        ELSE Ret(new(new(s, get_ptr(self), size_first, FALSE),
                     get_next_neighbor_ptr(first), size_second, FALSE),
                 Ok(<<first, second>>))

\* merge_cells that starts the merged cell at self, lower or not
merge_cells_at_self(s, self, neighbor, n) ==
    LET size == get_meta(self)[1] + get_meta(neighbor)[1] + CELL_META_SIZE * 2
    IN  IF ~n.some THEN Fail(s)
        ELSE IF get_ptr(n.v) # get_ptr(neighbor) THEN Fail(s)
        ELSE Ret(new(s, get_ptr(self), size, FALSE), SSlice(get_ptr(self), size, FALSE))

\* merge_with_neighbor once n, the cell found on the neighbor's side, is read
merge_cells(s, self, neighbor, n) ==
    LET self_ptr == get_ptr(self)
        neighbor_ptr == get_ptr(neighbor)
        ptr == IF self_ptr > neighbor_ptr THEN neighbor_ptr ELSE self_ptr
        size == get_meta(self)[1] + get_meta(neighbor)[1] + CELL_META_SIZE * 2
    IN  IF ~n.some THEN Fail(s)
        ELSE IF get_ptr(n.v) # neighbor_ptr THEN Fail(s)
        ELSE Ret(new(s, ptr, size, FALSE), SSlice(ptr, size, FALSE))

merge_with_neighbor(s, self, neighbor) ==
    IF s.trap THEN Fail(s)
    ELSE IF ~assert_allocated(self, FALSE, Some(get_meta(self)[2])) THEN Fail(s)
    ELSE IF ~assert_allocated(neighbor, FALSE, Some(get_meta(neighbor)[2])) THEN Fail(s)
    ELSE merge_cells(s, self, neighbor,
                     IF get_ptr(self) > get_ptr(neighbor)
                     THEN get_neighbor(s, self, Start)
                     ELSE get_neighbor(s, self, End))

----------------------------------------------------------------------------
(* mem::allocator: SSlice<Free> *)

set_prev_free_ptr(s, self, prev_ptr) ==
    IF ~assert_allocated(self, FALSE, None) THEN Trap(s)
    ELSE _write_word(s, self, 0, prev_ptr)

get_prev_free_ptr(s, self) ==
    IF ~assert_allocated(self, FALSE, None) THEN Abort
    ELSE _read_word(s, self, 0)

set_next_free_ptr(s, self, next_ptr) ==
    IF ~assert_allocated(self, FALSE, None) THEN Trap(s)
    ELSE _write_word(s, self, PTR_SIZE, next_ptr)

get_next_free_ptr(s, self) ==
    IF ~assert_allocated(self, FALSE, None) THEN Abort
    ELSE _read_word(s, self, PTR_SIZE)

----------------------------------------------------------------------------
(* mem::allocator: SSlice<StableMemoryAllocator> *)

\* utils::math::fast_log2: floor(log2(x))
RECURSIVE fast_log2(_)
fast_log2(x) == IF x <= 1 THEN 0 ELSE 1 + fast_log2(x \div 2)

get_seg_class_id(size) ==
    LET log0 == fast_log2(size)
        log == IF 2 ^ log0 < size THEN log0 + 1 ELSE log0
    IN  IF log > 3 THEN log - 4 ELSE 0

get_seg_class_head_offset(seg_class_id) ==
    IF ~(seg_class_id < SEG_CLASS_PTRS_COUNT) THEN Abort
    ELSE Len(MAGIC) + seg_class_id * PTR_SIZE

set_seg_class_head(s, self, id, head_ptr) ==
    IF ~(id < SEG_CLASS_PTRS_COUNT) THEN Trap(s)
    ELSE _write_word(s, self, get_seg_class_head_offset(id), head_ptr)

get_seg_class_head(s, self, id) ==
    LET ptr == _read_word(s, self, get_seg_class_head_offset(id))
    IN  IF ptr = EMPTY_PTR THEN None
        ELSE Some(unwrap(from_ptr(s, ptr, Start)))

get_allocated_size(s, self) ==
    _read_word(s, self, Len(MAGIC) + SEG_CLASS_PTRS_COUNT * PTR_SIZE)

set_allocated_size(s, self, size) ==
    _write_word(s, self, Len(MAGIC) + SEG_CLASS_PTRS_COUNT * PTR_SIZE, size)

get_free_size(s, self) ==
    _read_word(s, self, Len(MAGIC) + SEG_CLASS_PTRS_COUNT * PTR_SIZE + PTR_SIZE)

set_free_size(s, self, size) ==
    _write_word(s, self, Len(MAGIC) + SEG_CLASS_PTRS_COUNT * PTR_SIZE + PTR_SIZE, size)

get_max_allocation_pages(s, self) ==
    as_u32(_read_word(s, self, Len(MAGIC) + SEG_CLASS_PTRS_COUNT * PTR_SIZE + PTR_SIZE * 2))

set_max_allocation_pages(s, self, pgs) ==
    _write_word(s, self, Len(MAGIC) + SEG_CLASS_PTRS_COUNT * PTR_SIZE + PTR_SIZE * 2, pgs)

get_on_low_executed_flag(s, self) ==
    LET buf == _read_bytes(s, self,
                  Len(MAGIC) + SEG_CLASS_PTRS_COUNT * PTR_SIZE + PTR_SIZE * 2 + 1, 1)
    IN  ByteAt(buf, 0) = 1

set_on_low_executed_flag(s, self, flag) ==
    LET buf == IF flag THEN SeqBuf(<<1>>) ELSE SeqBuf(<<0>>)
    IN  _write_bytes(s, self,
            Len(MAGIC) + SEG_CLASS_PTRS_COUNT * PTR_SIZE + PTR_SIZE * 2 + 1, buf)

get_max_grow_pages(s, self) ==
    _read_word(s, self, Len(MAGIC) + SEG_CLASS_PTRS_COUNT * PTR_SIZE + PTR_SIZE * 3 + 1)

set_max_grow_pages(s, self, max_pages) ==
    _write_word(s, self, Len(MAGIC) + SEG_CLASS_PTRS_COUNT * PTR_SIZE + PTR_SIZE * 3 + 1,
                max_pages)

\* set_custom_data_ptr with the slots one word lower, over max_grow_pages
set_custom_data_ptr_lower(s, self, idx, ptr) ==
    IF ~(idx < CUSTOM_DATA_PTRS_COUNT) THEN Trap(s)
    ELSE _write_word(s, self,
            Len(MAGIC) + SEG_CLASS_PTRS_COUNT * PTR_SIZE + PTR_SIZE * 3 + 1 + idx * PTR_SIZE,
            ptr)

set_custom_data_ptr(s, self, idx, ptr) ==
    IF ~(idx < CUSTOM_DATA_PTRS_COUNT) THEN Trap(s)
    ELSE _write_word(s, self,
            Len(MAGIC) + SEG_CLASS_PTRS_COUNT * PTR_SIZE + PTR_SIZE * 4 + 1 + idx * PTR_SIZE,
            ptr)

get_custom_data_ptr(s, self, idx) ==
    IF ~(idx < CUSTOM_DATA_PTRS_COUNT) THEN Abort
    ELSE _read_word(s, self,
            Len(MAGIC) + SEG_CLASS_PTRS_COUNT * PTR_SIZE + PTR_SIZE * 4 + 1 + idx * PTR_SIZE)

\* total_allocated + n into the counter, n taken without the two tag words
add_allocated_size_payload(s, self, n) ==
    IF s.trap THEN s
    ELSE set_allocated_size(s, self, get_allocated_size(s, self) + n - CELL_META_SIZE * 2)

\* total_allocated - n into the counter, n taken without the two tag words
sub_allocated_size_payload(s, self, n) ==
    IF s.trap THEN s
    ELSE set_allocated_size(s, self,
             u64_sub(get_allocated_size(s, self), n - CELL_META_SIZE * 2))

\* total_allocated + n into the counter
add_allocated_size(s, self, n) ==
    IF s.trap THEN s
    ELSE set_allocated_size(s, self, get_allocated_size(s, self) + n)

\* total_allocated - n into the counter
sub_allocated_size(s, self, n) ==
    IF s.trap THEN s
    ELSE set_allocated_size(s, self, u64_sub(get_allocated_size(s, self), n))

\* if let Some(mut next) = next_opt { next.set_prev_free_ptr(ptr) }
set_prev_of(s, next_opt, ptr) ==
    IF s.trap THEN s
    ELSE IF next_opt.some THEN set_prev_free_ptr(s, next_opt.v, ptr)
    ELSE s

\* eject_from_freelist, membox is the head of its seg class: after the new head
\* is written
eject_head_next(s, self, membox) ==
    IF s.trap THEN s
    ELSE set_prev_of(s, from_ptr(s, get_next_free_ptr(s, membox), Start), get_ptr(self))

eject_head(s, self, seg_class_id, membox) ==
    eject_head_next(set_seg_class_head(s, self, seg_class_id, get_next_free_ptr(s, membox)),
                    self, membox)

\* eject_from_freelist, membox is not the head: its neighbors in the list are
\* linked to each other
eject_between(s, prev_opt, next_opt) ==
    IF ~prev_opt.some THEN Trap(s)
    ELSE IF next_opt.some
    THEN set_prev_free_ptr(set_next_free_ptr(s, prev_opt.v, get_ptr(next_opt.v)),
                           next_opt.v, get_ptr(prev_opt.v))
    ELSE set_next_free_ptr(s, prev_opt.v, EMPTY_PTR)

eject_inner(s, membox) ==
    eject_between(s, from_ptr(s, get_prev_free_ptr(s, membox), Start),
                     from_ptr(s, get_next_free_ptr(s, membox), Start))

\* the end of eject_from_freelist with free_bytes left as it was
eject_unlinked_keeps_free_size(s, self, membox) ==
    IF s.trap THEN s
    ELSE set_next_free_ptr(set_prev_free_ptr(s, membox, EMPTY_PTR), membox, EMPTY_PTR)

\* the end of eject_from_freelist: the counter and the cell's own pointers
eject_unlinked(s, self, membox) ==
    IF s.trap THEN s
    ELSE set_next_free_ptr(
             set_prev_free_ptr(
                 set_free_size(s, self,
                     u64_sub(get_free_size(s, self), get_total_size_bytes(membox))),
                 membox, EMPTY_PTR),
             membox, EMPTY_PTR)

eject_from_freelist(s, self, seg_class_id, membox) ==
    IF s.trap THEN s
    ELSE eject_unlinked(IF get_prev_free_ptr(s, membox) = get_ptr(self)
                        THEN eject_head(s, self, seg_class_id, membox)
                        ELSE eject_inner(s, membox),
                        self, membox)

\* one side of maybe_merge_with_free_neighbors that merges with no neighbor
merge_neighbor_never(s, self, membox, neighbor_opt) ==
    IF neighbor_opt.panic THEN Fail(s)
    ELSE [s |-> s, r |-> membox]

\* one side of maybe_merge_with_free_neighbors, the neighbor is read
merge_neighbor(s, self, membox, neighbor_opt) ==
    IF neighbor_opt.panic THEN Fail(s)
    ELSE IF neighbor_opt.some /\ ~get_meta(neighbor_opt.v)[2]
    THEN merge_with_neighbor(
             eject_from_freelist(s, self, get_seg_class_id(get_meta(neighbor_opt.v)[1]),
                                 neighbor_opt.v),
             membox, neighbor_opt.v)
    ELSE [s |-> s, r |-> membox]

\* one side of maybe_merge_with_free_neighbors: [s |-> store, r |-> membox]
merge_side(s, self, membox, side) ==
    IF s.trap THEN Fail(s)
    ELSE merge_neighbor(s, self, membox, get_neighbor(s, membox, side))

\* maybe_merge_with_free_neighbors that does not look at the second side
merge_next_skipped(a, self) == a

\* maybe_merge_with_free_neighbors, the second side
merge_next(a, self) ==
    IF a.s.trap THEN a
    ELSE merge_side(a.s, self, a.r, End)

maybe_merge_with_free_neighbors(s, self, membox) ==
    merge_next(merge_side(s, self, membox, Start), self)

\* the end of push_free_membox that leaves the old head's prev pointer as it was
push_linked_prev_kept(s, membox, head_opt) ==
    IF s.trap THEN s
    ELSE IF ~head_opt.some THEN set_next_free_ptr(s, membox, EMPTY_PTR)
    ELSE set_next_free_ptr(s, membox, get_ptr(head_opt.v))

\* the end of push_free_membox: the old head follows the cell
push_linked(s, membox, head_opt) ==
    IF s.trap THEN s
    ELSE IF ~head_opt.some THEN set_next_free_ptr(s, membox, EMPTY_PTR)
    ELSE set_prev_free_ptr(set_next_free_ptr(s, membox, get_ptr(head_opt.v)),
                           head_opt.v, get_ptr(membox))

\* push_free_membox: the cell becomes the head of its seg class
push_head(s, self, membox, seg_class_id) ==
    IF s.trap THEN s
    ELSE push_linked(
             set_prev_free_ptr(set_seg_class_head(s, self, seg_class_id, get_ptr(membox)),
                               membox, get_ptr(self)),
             membox, get_seg_class_head(s, self, seg_class_id))

\* push_free_membox after the merge
push_merged(a, self) ==
    IF a.s.trap THEN a.s
    ELSE push_head(set_free_size(a.s, self,
                       get_free_size(a.s, self) + get_total_size_bytes(a.r)),
                   self, a.r, get_seg_class_id(get_meta(a.r)[1]))

\* push_free_membox that links the merged cell in the class of the cell it was
\* given
push_free_membox_class_kept(s, self, membox) ==
    LET a == maybe_merge_with_free_neighbors(s, self, membox)
    IN  IF s.trap THEN s
        ELSE IF ~assert_allocated(membox, FALSE, None) THEN Trap(s)
        ELSE IF a.s.trap THEN a.s
        ELSE push_head(set_free_size(a.s, self,
                           get_free_size(a.s, self) + get_total_size_bytes(a.r)),
                       self, a.r, get_seg_class_id(get_meta(membox)[1]))

push_free_membox(s, self, membox) ==
    IF s.trap THEN s
    ELSE IF ~assert_allocated(membox, FALSE, None) THEN Trap(s)
    ELSE push_merged(maybe_merge_with_free_neighbors(s, self, membox), self)

\* the loop of pop_allocated_membox over the list of the request's own class:
\* the first cell that is big enough, or None at the end of the list
RECURSIVE walk_seg_class(_, _, _)
walk_seg_class(s, free_membox, size) ==
    IF get_size_bytes(free_membox) >= size THEN Some(free_membox)
    ELSE IF get_next_free_ptr(s, free_membox) = EMPTY_PTR THEN None
    ELSE walk_seg_class(s, unwrap(from_ptr(s, get_next_free_ptr(s, free_membox), Start)), size)

\* the loop, entered when the class has a head
walk_from(s, free_membox_opt, size) ==
    IF free_membox_opt.some THEN walk_seg_class(s, free_membox_opt.v, size)
    ELSE None

\* the while loop of pop_allocated_membox over the larger classes: the class
\* it stops at (SEG_CLASS_PTRS_COUNT when it runs to the end) and the head it
\* read last
RECURSIVE find_larger(_, _, _, _, _)
find_next(s, self, seg_class_id, size, free_membox_opt) ==
    IF free_membox_opt.some /\ get_size_bytes(free_membox_opt.v) >= size
    THEN [id |-> seg_class_id, opt |-> free_membox_opt]
    ELSE find_larger(s, self, seg_class_id + 1, size, free_membox_opt)

find_larger(s, self, seg_class_id, size, free_membox_opt) ==
    IF ~(seg_class_id < SEG_CLASS_PTRS_COUNT)
    THEN [id |-> seg_class_id, opt |-> free_membox_opt]
    ELSE find_next(s, self, seg_class_id, size, get_seg_class_head(s, self, seg_class_id))

\* pop_allocated_membox, a cell of the request's own class, with the tags of
\* the cell left free
pop_found_not_flagged(s, self, seg_class_id, free_membox) ==
    Ret(add_allocated_size(eject_from_freelist(s, self, seg_class_id, free_membox),
                           self, get_total_size_bytes(free_membox)),
        Ok([free_membox EXCEPT !.allocated = TRUE]))

\* pop_allocated_membox, a cell of the request's own class, left in the free
\* list of its class
pop_found_not_ejected(s, self, seg_class_id, free_membox) ==
    Ret(set_allocated(add_allocated_size(s, self, get_total_size_bytes(free_membox)),
                      free_membox, TRUE),
        Ok([free_membox EXCEPT !.allocated = TRUE]))

\* pop_allocated_membox, a cell of the request's own class: it is taken whole
pop_found(s, self, seg_class_id, free_membox) ==
    Ret(set_allocated(
            add_allocated_size(eject_from_freelist(s, self, seg_class_id, free_membox),
                               self, get_total_size_bytes(free_membox)),
            free_membox, TRUE),
        Ok([free_membox EXCEPT !.allocated = TRUE]))

\* pop_allocated_membox, the head of a larger class after the split
pop_split(res, self) ==
    IF res.s.trap THEN res
    ELSE IF res.r.ok
    THEN Ret(add_allocated_size(
                 push_free_membox(set_allocated(res.s, res.r.v[1], TRUE), self, res.r.v[2]),
                 self, get_total_size_bytes(res.r.v[1])),
             Ok([res.r.v[1] EXCEPT !.allocated = TRUE]))
    ELSE Ret(add_allocated_size(set_allocated(res.s, res.r.v, TRUE),
                                self, get_total_size_bytes(res.r.v)),
             Ok([res.r.v EXCEPT !.allocated = TRUE]))

\* pop_allocated_membox that takes nothing from the larger classes
pop_larger_none(s, self, size, f) == [s |-> s, r |-> Err("OutOfMemory")]

\* pop_allocated_membox after both loops; f is what the second loop stopped at
pop_larger(s, self, size, f) ==
    IF f.opt.some
    THEN pop_split(split(eject_from_freelist(s, self, f.id, f.opt.v), f.opt.v, size), self)
    ELSE [s |-> s, r |-> Err("OutOfMemory")]

\* pop_allocated_membox that gives up when the list of the request's class
\* holds cells but none that fits
pop_walked_own_class(s, self, size, seg_class_id, found) ==
    IF found.some THEN pop_found(s, self, seg_class_id, found.v)
    ELSE IF get_seg_class_head(s, self, seg_class_id).some
    THEN [s |-> s, r |-> Err("OutOfMemory")]
    ELSE pop_larger(s, self, size, find_larger(s, self, seg_class_id + 1, size, None))

\* pop_allocated_membox after the first loop
pop_walked(s, self, size, seg_class_id, found) ==
    IF found.some THEN pop_found(s, self, seg_class_id, found.v)
    ELSE pop_larger(s, self, size, find_larger(s, self, seg_class_id + 1, size, None))

\* [s |-> store, r |-> Ok(membox) or Err(OutOfMemory)]
pop_allocated_membox(s, self, size) ==
    IF s.trap THEN Fail(s)
    ELSE pop_walked(s, self, size, get_seg_class_id(size),
                    walk_from(s, get_seg_class_head(s, self, get_seg_class_id(size)), size))

\* print, spawn(call_raw(id(), "on_low_stable_memory", ..)), set the flag
handle_low_memory(s, self) ==
    IF s.trap THEN s
    ELSE IF get_on_low_executed_flag(s, self) THEN s
    ELSE set_on_low_executed_flag([s EXCEPT !.spawned = @ + 1], self, TRUE)

\* grow_or_trigger_low_memory_hook after stable::grow
grown(g, self) ==
    IF g.ok THEN [s |-> g.s, r |-> Some(g.r)]
    ELSE [s |-> handle_low_memory(g.s, self), r |-> None]

\* grow_or_trigger_low_memory_hook that does not look at max_grow_pages
grow_uncapped(s, self, pages_to_grow) == grown(stable_grow(s, pages_to_grow), self)

\* [s |-> store, r |-> Some(prev_pages) or None]
grow_or_trigger_low_memory_hook(s, self, pages_to_grow) ==
    IF get_max_grow_pages(s, self) # 0
       /\ stable_size_pages(s) + pages_to_grow >= get_max_grow_pages(s, self)
    THEN [s |-> handle_low_memory(s, self), r |-> None]
    ELSE grown(stable_grow(s, pages_to_grow), self)

\* a new free cell over [ptr, ptr + total_size) goes to the free lists
push_new_memory(s, self, ptr, total_size) ==
    push_free_membox(new_total_size(s, ptr, total_size, FALSE), self,
                     SSlice(ptr, total_size - CELL_META_SIZE * 2, FALSE))

\* handle_free_buffer after the attempt to grow
push_grown(g, self) ==
    IF g.s.trap THEN g.s
    ELSE IF ~g.r.some THEN g.s
    ELSE push_new_memory(g.s, self, g.r.v * PAGE_SIZE_BYTES,
             u64_sub(stable_size_pages(g.s) * PAGE_SIZE_BYTES, g.r.v * PAGE_SIZE_BYTES))

handle_free_buffer(s, self) ==
    IF s.trap THEN s
    ELSE IF get_free_size(s, self) >= get_max_allocation_pages(s, self) * PAGE_SIZE_BYTES
    THEN s
    ELSE push_grown(
             grow_or_trigger_low_memory_hook(s, self,
                 u64_sub(get_max_allocation_pages(s, self),
                         get_free_size(s, self) \div PAGE_SIZE_BYTES) + 1),
             self)

\* the end of allocate without the write of the zeroes
zeroed_not(s, it_opt) ==
    IF ~it_opt.some THEN Fail(s)
    ELSE Ret(s, Some(it_opt.v))

\* the end of allocate, with the zeroes written from the footer of the cell
\* before on
zeroed_early(s, it_opt) ==
    IF ~it_opt.some THEN Fail(s)
    ELSE Ret(stable_write(s, get_ptr(it_opt.v) - CELL_META_SIZE,
                          ZeroBuf(get_size_bytes(it_opt.v) + CELL_META_SIZE * 2)),
             Some(it_opt.v))

\* the end of allocate: the payload of the cell is zeroed
zeroed(s, it_opt) ==
    IF ~it_opt.some THEN Fail(s)
    ELSE Ret(_write_bytes(s, it_opt.v, 0, ZeroBuf(get_size_bytes(it_opt.v))), Some(it_opt.v))

\* allocate after the second handle_free_buffer
allocate_it(s, ptr) ==
    IF s.trap THEN Fail(s)
    ELSE zeroed(s, from_ptr(s, ptr, Start))

\* allocate without the handle_free_buffer that follows pop_allocated_membox
allocate_popped_once(p, self) ==
    IF p.s.trap THEN p
    ELSE IF ~p.r.ok THEN Fail(p.s)
    ELSE allocate_it(p.s, get_ptr(p.r.v))

\* allocate after pop_allocated_membox
allocate_popped(p, self) ==
    IF p.s.trap THEN p
    ELSE IF ~p.r.ok THEN Fail(p.s)
    ELSE allocate_it(handle_free_buffer(p.s, self), get_ptr(p.r.v))

\* [s |-> store, r |-> Some(the cell)]; a trap is s.trap
allocate(s, self, size) ==
    allocate_popped(
        pop_allocated_membox(handle_free_buffer(s, self), self,
                             IF size < CELL_MIN_SIZE THEN CELL_MIN_SIZE ELSE size),
        self)

\* the end of deallocate: the cell is read back and pushed
push_freed(s, self, free_opt) ==
    IF ~free_opt.some THEN Trap(s)
    ELSE push_free_membox(s, self, free_opt.v)

\* deallocate after the flag and the counter are written
deallocate_free(s, self, ptr) ==
    IF s.trap THEN s
    ELSE push_freed(s, self, from_ptr(s, ptr, Start))

deallocate(s, self, membox) ==
    IF s.trap THEN s
    ELSE IF ~assert_allocated(membox, TRUE, Some(get_meta(membox)[2])) THEN Trap(s)
    ELSE deallocate_free(
             sub_allocated_size(set_allocated(s, membox, FALSE), self,
                                get_total_size_bytes(membox)),
             self, get_ptr(membox))

\* the end of reallocate without the write of the old payload
write_data_not(a, data) == a

\* the end of reallocate: the old payload goes into the new cell
write_data(a, data) ==
    IF a.s.trap THEN a
    ELSE Ret(_write_bytes(a.s, a.r.v, 0, data), a.r)

\* [s |-> store, r |-> Some(the new cell)]
reallocate(s, self, membox, new_size) ==
    write_data(allocate(deallocate(s, self, membox), self, new_size),
               _read_bytes(s, membox, 0, get_size_bytes(membox)))

\* the loop of reset: EMPTY_PTR into each of the SEG_CLASS_PTRS_COUNT +
\* CUSTOM_DATA_PTRS_COUNT consecutive words that follow the magic
reset_ptrs(s, self) ==
    LET count == SEG_CLASS_PTRS_COUNT + CUSTOM_DATA_PTRS_COUNT
    IN  IF s.trap THEN s
        ELSE IF \E i \in 0..(count - 1) :
                    ~(Len(MAGIC) + i * PTR_SIZE + PTR_SIZE <= get_size_bytes(self))
        THEN Trap(s)
        ELSE stable_write(s, get_ptr(self) + (CELL_META_SIZE + Len(MAGIC)),
                 MkBuf(count * PTR_SIZE,
                       [j \in 0..(count * PTR_SIZE - 1) |-> U64Byte(EMPTY_PTR, j % PTR_SIZE)]))

\* the end of reset that makes no free cell
reset_free_not(s, self) == s

\* the end of reset: what follows the allocator becomes one free cell
reset_free(s, self) ==
    LET ptr == get_next_neighbor_ptr(self)
        total_free_size == u64_sub(stable_size_pages(s) * PAGE_SIZE_BYTES, ptr)
    IN  IF s.trap THEN s
        ELSE IF total_free_size > 0 THEN push_new_memory(s, self, ptr, total_free_size)
        ELSE s

reset(s, self) ==
    reset_free(
        set_on_low_executed_flag(
            set_max_grow_pages(
                set_max_allocation_pages(
                    set_free_size(
                        set_allocated_size(reset_ptrs(s, self), self, 0),
                        self, 0),
                    self, DEFAULT_MAX_ALLOCATION_PAGES),
                self, DEFAULT_MAX_GROW_PAGES),
            self, FALSE),
        self)

\* [s |-> store, r |-> the allocator]
init(s, offset) ==
    Ret(reset(_write_bytes(new(s, offset, SIZE, TRUE), SSlice(offset, SIZE, TRUE),
                           0, SeqBuf(MAGIC)),
              SSlice(offset, SIZE, TRUE)),
        SSlice(offset, SIZE, TRUE))

\* reinit that does not look at the magic
reinit_magic_any(membox, magic) == Some(membox)

\* reinit once the magic is read
reinit_magic(membox, magic) ==
    IF magic # SeqBuf(MAGIC) THEN None
    ELSE Some(membox)

\* reinit that takes the cell at offset for the allocator when its tag is free
reinit_membox_free(s, membox_opt) ==
    IF ~membox_opt.some THEN None
    ELSE IF get_meta(membox_opt.v)[2] \/ get_meta(membox_opt.v)[1] # SIZE THEN None
    ELSE reinit_magic(membox_opt.v, _read_bytes(s, membox_opt.v, 0, Len(MAGIC)))

\* reinit once from_ptr has answered
reinit_membox(s, membox_opt) ==
    IF ~membox_opt.some THEN None
    ELSE IF ~get_meta(membox_opt.v)[2] \/ get_meta(membox_opt.v)[1] # SIZE THEN None
    ELSE reinit_magic(membox_opt.v, _read_bytes(s, membox_opt.v, 0, Len(MAGIC)))

\* [s |-> store, r |-> Some(the allocator) or None]
reinit(s, offset) == [s |-> s, r |-> reinit_membox(s, from_ptr(s, offset, Start))]

----------------------------------------------------------------------------
(* The program as a state machine: one action per public call *)

\* payload sizes the client asks for
AllocSizes == {1, 24}

\* payload sizes the client asks for when it moves a cell
ReallocSizes == {1, 40}

\* the limits of the hosts the model runs on: no growth at all, and no limit
\* in reach
StoreCaps == {1, HUGE}

\* the bytes the client writes: byte i of a payload is (i % 255) + 1
Payload(len) == MkBuf(len, [i \in 0..(len - 1) |-> (i % 255) + 1])

\* the store state a handler starts in
Store == [mem |-> mem, pages |-> pages, spawned |-> spawned, cap |-> cap, trap |-> FALSE]

Commit(s) ==
    /\ mem' = s.mem
    /\ pages' = s.pages
    /\ spawned' = s.spawned

\* a trap ends the call and the host discards every write the call made
Rollback == UNCHANGED <<mem, pages, spawned>>

\* what the client knows of the call it made: the operation, the size it asked
\* for, the cell it gave, the cell it got, whether the call trapped, and, from
\* the store before the call, allocated_bytes and the bytes of interest (the
\* old payload for reallocate, the bytes under the returned payload for allocate)
Called(op, n, old, ret, trapped, before) ==
    [op |-> op, n |-> n, old |-> old, ret |-> ret, trapped |-> trapped,
     pre |-> get_allocated_size(Store, sma), before |-> before]

Init ==
    \E p \in 1..MaxInitPages, c \in StoreCaps :
        \E i \in {init([mem |-> <<>>, pages |-> p, spawned |-> 0, cap |-> c, trap |-> FALSE], 0)} :
            /\ p <= c
            /\ cap = c
            /\ mem = i.s.mem
            /\ pages = i.s.pages
            /\ spawned = i.s.spawned
            /\ sma = i.r
            /\ handles = {}
            /\ calls = 0
            /\ last = [op |-> "init", n |-> 0, old |-> None, ret |-> None, trapped |-> FALSE,
                       pre |-> 0, before |-> ZeroBuf(0)]

Allocate(n) ==
    /\ calls < MaxCalls
    /\ Cardinality(handles) < MaxLive
    /\ \E a \in {allocate(Store, sma, n)} :
           IF a.s.trap
           THEN /\ Rollback
                /\ UNCHANGED handles
                /\ last' = Called("allocate", n, None, None, TRUE, ZeroBuf(0))
           ELSE /\ Commit(a.s)
                /\ handles' = handles \cup {a.r.v}
                /\ last' = Called("allocate", n, None, a.r, FALSE,
                                  stable_read(Store, get_ptr(a.r.v) + CELL_META_SIZE,
                                              get_size_bytes(a.r.v)))
    /\ calls' = calls + 1
    /\ UNCHANGED <<sma, cap>>

Deallocate(h) ==
    /\ calls < MaxCalls
    /\ \E s \in {deallocate(Store, sma, h)} :
           IF s.trap
           THEN /\ Rollback
                /\ UNCHANGED handles
                /\ last' = Called("deallocate", 0, Some(h), None, TRUE, ZeroBuf(0))
           ELSE /\ Commit(s)
                /\ handles' = handles \ {h}
                /\ last' = Called("deallocate", 0, Some(h), None, FALSE, ZeroBuf(0))
    /\ calls' = calls + 1
    /\ UNCHANGED <<sma, cap>>

Reallocate(h, n) ==
    /\ calls < MaxCalls
    /\ \E a \in {reallocate(Store, sma, h, n)} :
           IF a.s.trap
           THEN /\ Rollback
                /\ UNCHANGED handles
                /\ last' = Called("reallocate", n, Some(h), None, TRUE, ZeroBuf(0))
           ELSE /\ Commit(a.s)
                /\ handles' = (handles \ {h}) \cup {a.r.v}
                /\ last' = Called("reallocate", n, Some(h), a.r, FALSE,
                                  _read_bytes(Store, h, 0, get_size_bytes(h)))
    /\ calls' = calls + 1
    /\ UNCHANGED <<sma, cap>>

\* the client fills the payload of a cell it holds
Write(h) ==
    /\ calls < MaxCalls
    /\ \E s \in {_write_bytes(Store, h, 0, Payload(get_size_bytes(h)))} :
           IF s.trap
           THEN /\ Rollback
                /\ last' = Called("write", 0, Some(h), None, TRUE, ZeroBuf(0))
           ELSE /\ Commit(s)
                /\ last' = Called("write", 0, Some(h), None, FALSE, ZeroBuf(0))
    /\ calls' = calls + 1
    /\ UNCHANGED <<sma, cap, handles>>

Reset ==
    /\ calls < MaxCalls
    /\ \E s \in {reset(Store, sma)} :
           IF s.trap
           THEN /\ Rollback
                /\ UNCHANGED handles
                /\ last' = Called("reset", 0, None, None, TRUE, ZeroBuf(0))
           ELSE /\ Commit(s)
                /\ handles' = {}
                /\ last' = Called("reset", 0, None, None, FALSE, ZeroBuf(0))
    /\ calls' = calls + 1
    /\ UNCHANGED <<sma, cap>>

Next ==
    \/ \E n \in AllocSizes : Allocate(n)
    \/ \E h \in handles : Deallocate(h)
    \/ \E h \in handles, n \in ReallocSizes : Reallocate(h, n)
    \/ \E h \in handles : Write(h)
    \/ Reset

Spec == Init /\ [][Next]_vars

----------------------------------------------------------------------------
(* The program with its tuning knobs: the client sets the knobs and the    *)
(* custom pointers, reattaches with reinit, and allocates small cells      *)

\* the caps on the size of the store that the client sets
MaxGrowPagesValues == {2, 183}

\* the free buffer targets that the client sets
MaxAllocationPagesValues == {1, 256}

\* the custom pointers that the client sets, as <<idx, ptr>>
CustomDataPtrValues == {<<3, 565>>}

\* the client sets its knobs in its first calls
MaxTunes == 2

Reinit(offset) ==
    /\ calls < MaxCalls
    /\ \E a \in {reinit(Store, offset)} :
           /\ Commit(a.s)
           /\ sma' = IF a.r.some THEN a.r.v ELSE sma
           /\ last' = Called("reinit", offset, Some(sma), a.r, FALSE, Store)
    /\ calls' = calls + 1
    /\ UNCHANGED <<cap, handles>>

\* a call of a setter, s the store it leaves
Tuned(op, n, s) ==
    /\ calls < MaxTunes
    /\ IF s.trap
       THEN /\ Rollback
            /\ last' = Called(op, n, None, None, TRUE, ZeroBuf(0))
       ELSE /\ Commit(s)
            /\ last' = Called(op, n, None, None, FALSE, ZeroBuf(0))
    /\ calls' = calls + 1
    /\ UNCHANGED <<sma, cap, handles>>

SetMaxGrowPages(max_pages) ==
    \E s \in {set_max_grow_pages(Store, sma, max_pages)} :
        Tuned("set_max_grow_pages", max_pages, s)

SetMaxAllocationPages(pgs) ==
    \E s \in {set_max_allocation_pages(Store, sma, pgs)} :
        Tuned("set_max_allocation_pages", pgs, s)

SetCustomDataPtr(idx, ptr) ==
    \E s \in {set_custom_data_ptr(Store, sma, idx, ptr)} :
        Tuned("set_custom_data_ptr", <<idx, ptr>>, s)

NextKnobs ==
    \/ \E n \in AllocSizes : Allocate(n)
    \/ \E h \in handles : Deallocate(h)
    \/ Reset
    \/ Reinit(0)
    \/ \E p \in MaxGrowPagesValues : SetMaxGrowPages(p)
    \/ \E p \in MaxAllocationPagesValues : SetMaxAllocationPages(p)
    \/ \E c \in CustomDataPtrValues : SetCustomDataPtr(c[1], c[2])

SpecKnobs == Init /\ [][NextKnobs]_vars

----------------------------------------------------------------------------
(* The program with large cells: the client asks for cells of a page, of   *)
(* the whole free buffer target, and of more than the target               *)

\* payload sizes the client asks for: the smallest cell, a page, the free
\* buffer target max_alloc_pages * PAGE_SIZE, and three pages more
LargeSizes ==
    {CELL_MIN_SIZE, PAGE_SIZE_BYTES, DEFAULT_MAX_ALLOCATION_PAGES * PAGE_SIZE_BYTES,
     (DEFAULT_MAX_ALLOCATION_PAGES + 3) * PAGE_SIZE_BYTES}

\* the limits of the hosts: one that grants the first growth of the free
\* buffer and refuses what follows, and one with no limit in reach
LargeStoreCaps == {DEFAULT_MAX_ALLOCATION_PAGES + 2, HUGE}

InitLarge ==
    \E c \in LargeStoreCaps :
        \E i \in {init([mem |-> <<>>, pages |-> 1, spawned |-> 0, cap |-> c, trap |-> FALSE], 0)} :
            /\ cap = c
            /\ mem = i.s.mem
            /\ pages = i.s.pages
            /\ spawned = i.s.spawned
            /\ sma = i.r
            /\ handles = {}
            /\ calls = 0
            /\ last = [op |-> "init", n |-> 0, old |-> None, ret |-> None, trapped |-> FALSE,
                       pre |-> 0, before |-> ZeroBuf(0)]

NextLarge ==
    \/ \E n \in LargeSizes : Allocate(n)
    \/ \E h \in handles : Deallocate(h)

SpecLarge == InitLarge /\ [][NextLarge]_vars

----------------------------------------------------------------------------
(* reinit over a store that no allocator has written: the bytes are what   *)
(* the host left there                                                     *)

\* the addresses the host writes a word to
HostAddrs == {0, CELL_META_SIZE}

\* the words the host writes: boundary tags that are, or are close to, the tag
\* of an allocator, and words that start, or nearly start, with the magic
HostWords ==
    {encode_meta(SIZE, TRUE), encode_meta(SIZE, FALSE), encode_meta(SIZE + 1, TRUE),
     encode_meta(PTR_SIZE, TRUE), SeqBuf(MAGIC), SeqBuf(<<MAGIC[1], MAGIC[2], MAGIC[3]>>)}

\* the offsets the client reattaches at: a word the host wrote, the last bytes
\* of the store, the end of the store, and the empty pointer
ReinitOffsets(s) ==
    HostAddrs \cup {stable_size_pages(s) * PAGE_SIZE_BYTES - CELL_META_SIZE \div 2,
                    stable_size_pages(s) * PAGE_SIZE_BYTES, EMPTY_PTR}

InitReattach ==
    /\ mem = <<>>
    /\ pages \in 1..MaxInitPages
    /\ spawned = 0
    /\ cap = pages
    /\ sma = None
    /\ handles = {}
    /\ calls = 0
    /\ last = [op |-> "init", n |-> 0, old |-> None, ret |-> None, trapped |-> FALSE,
               pre |-> 0, before |-> ZeroBuf(0)]

\* stable::write by the host
HostWrite(addr, buf) ==
    /\ calls < MaxCalls
    /\ Commit(stable_write(Store, addr, buf))
    /\ last' = [op |-> "write", n |-> addr, old |-> None, ret |-> None, trapped |-> FALSE,
                pre |-> 0, before |-> buf]
    /\ calls' = calls + 1
    /\ UNCHANGED <<sma, cap, handles>>

\* reinit(offset) by a client that holds no allocator yet
Reattach(offset) ==
    /\ calls < MaxCalls
    /\ \E a \in {reinit(Store, offset)} :
           /\ Commit(a.s)
           /\ sma' = IF a.r.some THEN a.r.v ELSE sma
           /\ last' = [op |-> "reinit", n |-> offset, old |-> None, ret |-> a.r,
                       trapped |-> a.s.trap, pre |-> 0, before |-> Store]
    /\ calls' = calls + 1
    /\ UNCHANGED <<cap, handles>>

NextReattach ==
    \/ \E addr \in HostAddrs, buf \in HostWords : HostWrite(addr, buf)
    \/ \E offset \in ReinitOffsets(Store) : Reattach(offset)

SpecReattach == InitReattach /\ [][NextReattach]_vars

----------------------------------------------------------------------------
(* The program with a client that copies its handles: a handle is a value  *)
(* (pointer, size, flag), the flag is the one read when the handle was     *)
(* made, and a copy made before deallocate outlives the call.              *)

\* unsafe fn clone: the handle is read again from the tag at its pointer
clone(s, self) == unwrap(from_ptr(s, get_ptr(self), Start))

\* the client calls deallocate once more on the cell it gave to the last
\* deallocate, through the copy of the handle it kept from before that call.
\* The calls that would take the allocated counter below zero are left out:
\* total_allocated - size panics in one build and wraps in the other.
DeallocateRetained ==
    /\ calls < MaxCalls
    /\ last.op = "deallocate"
    /\ get_allocated_size(Store, sma) >= get_total_size_bytes(last.old.v)
    /\ \E s \in {deallocate(Store, sma, last.old.v)} :
           IF s.trap
           THEN /\ Rollback
                /\ last' = Called("deallocate", 0, last.old, None, TRUE, ZeroBuf(0))
           ELSE /\ Commit(s)
                /\ last' = Called("deallocate", 0, last.old, None, FALSE, ZeroBuf(0))
    /\ handles' = handles \ {last.old.v}
    /\ calls' = calls + 1
    /\ UNCHANGED <<sma, cap>>

\* the same call through a handle cloned after the last deallocate
DeallocateCloned ==
    /\ calls < MaxCalls
    /\ last.op = "deallocate"
    /\ from_ptr(Store, get_ptr(last.old.v), Start).some
    /\ \E h \in {clone(Store, last.old.v)} :
       \E s \in {deallocate(Store, sma, h)} :
           IF s.trap
           THEN /\ Rollback
                /\ last' = Called("deallocate", 0, Some(h), None, TRUE, ZeroBuf(0))
           ELSE /\ Commit(s)
                /\ last' = Called("deallocate", 0, Some(h), None, FALSE, ZeroBuf(0))
    /\ handles' = handles \ {last.old.v}
    /\ calls' = calls + 1
    /\ UNCHANGED <<sma, cap>>

NextRetained ==
    \/ \E n \in AllocSizes : Allocate(n)
    \/ \E h \in handles : Deallocate(h)
    \/ DeallocateRetained
    \/ DeallocateCloned

SpecRetained == Init /\ [][NextRetained]_vars

----------------------------------------------------------------------------
(* The cell primitive on its own, as its unit tests drive it: the store is *)
(* cleared and grown, three cells are laid out one after the other with    *)
(* new, and the client splits, merges, reads, writes and looks up cells    *)
(* through the handles it holds.                                           *)

\* the calls the client makes on the cells
MaxSliceCalls == 2

\* the payload sizes of the first cell and of the second cell; the third
\* cell takes the rest of the store
FirstSizes == {CELL_MIN_SIZE, 100}
SecondSizes == {48}

\* the sizes the client splits at
SplitSizes == {PTR_SIZE, CELL_MIN_SIZE, 24, 68}

\* the buffers the client writes and the lengths it reads
WriteData == {SeqBuf(<<1, 3, 3, 7>>), SeqBuf(<<1, 2, 3, 4, 5, 6, 7, 8>>)}
ReadLens == {PTR_SIZE}

\* the payload offsets the client reads and writes at
Offsets(h) == {0, get_size_bytes(h) - 4}

\* the three cells of the layout
LaidCells(size1, allocated1, size2, end) ==
    {SSlice(0, size1, allocated1),
     SSlice(size1 + CELL_META_SIZE * 2, size2, FALSE),
     SSlice(size1 + size2 + CELL_META_SIZE * 4,
            end - (size1 + size2 + CELL_META_SIZE * 4) - CELL_META_SIZE * 2, FALSE)}

\* SSlice::new for each cell of the set, in any order: the cells are disjoint
RECURSIVE lay(_, _)
lay(s, cells) ==
    IF cells = {} THEN s
    ELSE lay(new(s, get_ptr(CHOOSE c \in cells : TRUE),
                 get_size_bytes(CHOOSE c \in cells : TRUE),
                 (CHOOSE c \in cells : TRUE).allocated),
             cells \ {CHOOSE c \in cells : TRUE})

\* what the client knows of the call it made on a cell
Did(op, self, arg, ret, trapped) ==
    [op |-> op, self |-> self, arg |-> arg, ret |-> ret, trapped |-> trapped]

InitSlice ==
    \E size1 \in FirstSizes, allocated1 \in BOOLEAN, size2 \in SecondSizes :
        \E cells \in {LaidCells(size1, allocated1, size2, MaxInitPages * PAGE_SIZE_BYTES)} :
            /\ pages = MaxInitPages
            /\ cap = MaxInitPages
            /\ spawned = 0
            /\ mem = lay([mem |-> <<>>, pages |-> MaxInitPages, spawned |-> 0,
                          cap |-> MaxInitPages, trap |-> FALSE], cells).mem
            /\ sma = None
            /\ handles = cells
            /\ calls = 0
            /\ last = Did("new", None, 0, None, FALSE)

Split(h, size_first) ==
    /\ calls < MaxSliceCalls
    /\ \E a \in {split(Store, h, size_first)} :
           IF a.s.trap
           THEN /\ Rollback
                /\ UNCHANGED handles
                /\ last' = Did("split", h, size_first, None, TRUE)
           ELSE /\ Commit(a.s)
                /\ handles' = IF a.r.ok THEN (handles \ {h}) \cup {a.r.v[1], a.r.v[2]}
                              ELSE handles
                /\ last' = Did("split", h, size_first, a.r, FALSE)
    /\ calls' = calls + 1
    /\ UNCHANGED <<sma, cap>>

Merge(h, neighbor) ==
    /\ calls < MaxSliceCalls
    /\ \E a \in {merge_with_neighbor(Store, h, neighbor)} :
           IF a.s.trap
           THEN /\ Rollback
                /\ UNCHANGED handles
                /\ last' = Did("merge_with_neighbor", h, neighbor, None, TRUE)
           ELSE /\ Commit(a.s)
                /\ handles' = (handles \ {h, neighbor}) \cup {a.r}
                /\ last' = Did("merge_with_neighbor", h, neighbor, Some(a.r), FALSE)
    /\ calls' = calls + 1
    /\ UNCHANGED <<sma, cap>>

WriteBytes(h, offset, data) ==
    /\ calls < MaxSliceCalls
    /\ \E s \in {_write_bytes(Store, h, offset, data)} :
           IF s.trap
           THEN /\ Rollback
                /\ last' = Did("_write_bytes", h, <<offset, data>>, None, TRUE)
           ELSE /\ Commit(s)
                /\ last' = Did("_write_bytes", h, <<offset, data>>, None, FALSE)
    /\ calls' = calls + 1
    /\ UNCHANGED <<sma, cap, handles>>

ReadBytes(h, offset, len) ==
    /\ calls < MaxSliceCalls
    /\ IF ~(len + offset <= get_size_bytes(h))
       THEN last' = Did("_read_bytes", h, <<offset, len>>, None, TRUE)
       ELSE last' = Did("_read_bytes", h, <<offset, len>>,
                        Some(_read_bytes(Store, h, offset, len)), FALSE)
    /\ calls' = calls + 1
    /\ UNCHANGED <<mem, pages, spawned, sma, cap, handles>>

FromPtr(ptr, side) ==
    /\ calls < MaxSliceCalls
    /\ \E r \in {from_ptr(Store, ptr, side)} :
           IF r.panic
           THEN last' = Did("from_ptr", None, <<ptr, side>>, None, TRUE)
           ELSE last' = Did("from_ptr", None, <<ptr, side>>, r, FALSE)
    /\ calls' = calls + 1
    /\ UNCHANGED <<mem, pages, spawned, sma, cap, handles>>

\* the addresses the client looks cells up at: where a cell it holds starts,
\* and where it ends
Edges == {get_ptr(h) : h \in handles} \cup {get_next_neighbor_ptr(h) : h \in handles}

NextSlice ==
    \/ \E h \in handles, size_first \in SplitSizes : Split(h, size_first)
    \/ \E h \in handles : \E neighbor \in handles \ {h} : Merge(h, neighbor)
    \/ \E h \in handles, data \in WriteData :
           \E offset \in Offsets(h) : WriteBytes(h, offset, data)
    \/ \E h \in handles, len \in ReadLens :
           \E offset \in Offsets(h) : ReadBytes(h, offset, len)
    \/ \E ptr \in Edges, side \in {Start, End} : FromPtr(ptr, side)

SpecSlice == InitSlice /\ [][NextSlice]_vars

----------------------------------------------------------------------------
(* The program with a client that keeps roots in the custom pointers: it   *)
(* sets the knobs and the four pointers in its first calls and allocates   *)

\* the slots the client writes and the pointers it writes into them
CustomDataIdx == 0..(CUSTOM_DATA_PTRS_COUNT - 1)
CustomDataPtrs == {SIZE + CELL_META_SIZE * 2, PAGE_SIZE_BYTES + 4464, EMPTY_PTR}

NextCustom ==
    \/ \E n \in {CELL_MIN_SIZE} : Allocate(n)
    \/ \E p \in MaxGrowPagesValues : SetMaxGrowPages(p)
    \/ \E p \in MaxAllocationPagesValues : SetMaxAllocationPages(p)
    \/ \E idx \in CustomDataIdx, ptr \in CustomDataPtrs : SetCustomDataPtr(idx, ptr)

SpecCustom == Init /\ [][NextCustom]_vars

----------------------------------------------------------------------------
(* collections::binary_heap::SBinaryHeap<T> over its vector.  The vector   *)
(* is a sequence: push appends, pop takes the last element, swap exchanges *)
(* two elements and get_cloned(i) is element i, counted from 0.  In this   *)
(* specification sma holds the heap { ty, arr }, last holds the call and   *)
(* what was pushed and popped so far, and the store is not looked at.      *)

\* the elements a heap holds at most, and the values the client pushes
MaxHeapLen == 10
MaxElem == 2

\* SVec: get_cloned(idx).unwrap() and swap(i, j), indices from 0
get_cloned(arr, idx) == arr[idx + 1]
swap(arr, i, j) == [arr EXCEPT ![i + 1] = arr[j + 1], ![j + 1] = arr[i + 1]]

\* the comparison of push: elem goes above parent
above(ty, elem, parent) == IF ty = "Min" THEN elem < parent ELSE elem > parent

\* let parent_idx = idx / 2
parent_of(idx) == idx \div 2

\* the loop of push: elem is at idx
RECURSIVE sift_up(_, _, _, _)
sift_up(arr, ty, elem, idx) ==
    IF above(ty, elem, get_cloned(arr, parent_of(idx)))
    THEN IF parent_of(idx) > 0
         THEN sift_up(swap(arr, idx, parent_of(idx)), ty, elem, parent_of(idx))
         ELSE swap(arr, idx, parent_of(idx))
    ELSE arr

heap_push(self, elem) ==
    IF Len(self.arr) + 1 = 1 THEN [self EXCEPT !.arr = Append(self.arr, elem)]
    ELSE [self EXCEPT !.arr = sift_up(Append(self.arr, elem), self.ty, elem, Len(self.arr))]

peek(self) == IF Len(self.arr) = 0 THEN None ELSE Some(get_cloned(self.arr, 0))

\* the loop of pop: the element to place is at idx, the last index is last_idx
RECURSIVE sift_down(_, _, _, _)
sift_down(arr, ty, idx, last_idx) ==
    IF (idx + 1) * 2 - 1 > last_idx THEN arr
    ELSE IF (idx + 1) * 2 > last_idx
    THEN IF above(ty, get_cloned(arr, (idx + 1) * 2 - 1), get_cloned(arr, idx))
         THEN swap(arr, idx, (idx + 1) * 2 - 1)
         ELSE arr
    ELSE IF /\ ~above(ty, get_cloned(arr, (idx + 1) * 2), get_cloned(arr, (idx + 1) * 2 - 1))
            /\ above(ty, get_cloned(arr, (idx + 1) * 2 - 1), get_cloned(arr, idx))
    THEN sift_down(swap(arr, idx, (idx + 1) * 2 - 1), ty, (idx + 1) * 2 - 1, last_idx)
    ELSE IF /\ ~above(ty, get_cloned(arr, (idx + 1) * 2 - 1), get_cloned(arr, (idx + 1) * 2))
            /\ above(ty, get_cloned(arr, (idx + 1) * 2), get_cloned(arr, idx))
    THEN sift_down(swap(arr, idx, (idx + 1) * 2), ty, (idx + 1) * 2, last_idx)
    ELSE arr

\* pop: [s |-> the heap after the call, r |-> what it returns]; r is Panic when
\* the call traps.  With len = 0 the call goes past the test len == 1 to
\* swap(0, len - 1) and arr.pop().unwrap(): len - 1 underflows, and the unwrap
\* of the pop of an empty vector panics, so the call traps in every build.
heap_pop(self) ==
    IF Len(self.arr) = 0 THEN [s |-> self, r |-> Panic]
    ELSE IF Len(self.arr) = 1 THEN [s |-> [self EXCEPT !.arr = <<>>], r |-> Some(self.arr[1])]
    ELSE [s |-> [self EXCEPT !.arr = sift_down(SubSeq(swap(self.arr, 0, Len(self.arr) - 1),
                                                      1, Len(self.arr) - 1),
                                               self.ty, 0, Len(self.arr) - 2)],
          r |-> Some(self.arr[1])]

\* what the client knows: the call, what it returned, and the elements
\* pushed and popped so far, in the order of the calls
HeapDid(op, ret, pushed, popped) ==
    [op |-> op, ret |-> ret, pushed |-> pushed, popped |-> popped]

InitHeap ==
    /\ sma \in {[ty |-> ty, arr |-> <<>>] : ty \in {"Min", "Max"}}
    /\ last = HeapDid("new", None, <<>>, <<>>)
    /\ calls = 0
    /\ handles = {}
    /\ mem = <<>>
    /\ pages = 0
    /\ spawned = 0
    /\ cap = 0

\* the client pushes, and pops once it has pushed all it has
HeapPush(elem) ==
    /\ Len(sma.arr) < MaxHeapLen
    /\ last.popped = <<>>
    /\ sma' = heap_push(sma, elem)
    /\ last' = HeapDid("push", None, Append(last.pushed, elem), last.popped)
    /\ calls' = calls + 1
    /\ UNCHANGED <<mem, pages, spawned, cap, handles>>

HeapPeek ==
    /\ last.op # "peek"
    /\ ~last.ret.panic
    /\ last' = HeapDid("peek", peek(sma), last.pushed, last.popped)
    /\ calls' = calls + 1
    /\ UNCHANGED <<sma, mem, pages, spawned, cap, handles>>

\* a pop that traps leaves the heap as it was; the client does not repeat a
\* call that trapped
HeapPop ==
    /\ ~last.ret.panic
    /\ \E a \in {heap_pop(sma)} :
           IF a.r.panic
           THEN /\ UNCHANGED sma
                /\ last' = HeapDid("pop", a.r, last.pushed, last.popped)
           ELSE /\ sma' = a.s
                /\ last' = HeapDid("pop", a.r, last.pushed, Append(last.popped, a.r.v))
    /\ calls' = calls + 1
    /\ UNCHANGED <<mem, pages, spawned, cap, handles>>

NextHeap ==
    \/ \E elem \in 1..MaxElem : HeapPush(elem)
    \/ HeapPeek
    \/ HeapPop

SpecHeap == InitHeap /\ [][NextHeap]_vars

----------------------------------------------------------------------------
(* The program with cells of one size class that differ in size: the client *)
(* asks for the smallest cell and for cells at both ends of the class of    *)
(* payloads 65..128, and gives cells back                                   *)

\* payload sizes the client asks for: the smallest cell, the first size above
\* the class boundary 2^6, and the class boundary 2^7
FitSizes == {1, 2 ^ 6 + 1, 2 ^ 7}

NextFit ==
    \/ \E n \in FitSizes : Allocate(n)
    \/ \E h \in handles : Deallocate(h)

SpecFit == Init /\ [][NextFit]_vars

----------------------------------------------------------------------------
(* The program with a class list of two cells: the client first allocates   *)
(* cells of 128, 16 and 65 bytes, gives back the cell of 128, allocates a   *)
(* cell of 129 and gives back the cell of 65; the list of the class of      *)
(* payloads 65..128 then has the cell of 65 as its head and the cell of 128 *)
(* behind it. calls is below zero during these six calls and counts the     *)
(* calls the client is free in from there on.                               *)

\* the calls the client prepares the store with; n is the size it asks for,
\* or the payload size of the cell it gives back
SetupScript ==
    << [op |-> "allocate", n |-> 2 ^ 7],
       [op |-> "allocate", n |-> 1],
       [op |-> "allocate", n |-> 2 ^ 6 + 1],
       [op |-> "deallocate", n |-> 2 ^ 7],
       [op |-> "allocate", n |-> 2 ^ 7 + 1],
       [op |-> "deallocate", n |-> 2 ^ 6 + 1] >>

SetupCalls == Len(SetupScript)

\* payload sizes the client asks for once the store is prepared: the smallest
\* cell, a size between the two free cells of the class, and the class
\* boundary 2^7
SearchAskSizes == {1, 100, 2 ^ 7}

\* the sizes the client asks for at position c of its calls
AskedAt(c) ==
    IF c >= 0 THEN SearchAskSizes
    ELSE IF SetupScript[c + SetupCalls + 1].op = "allocate"
    THEN {SetupScript[c + SetupCalls + 1].n}
    ELSE {}

\* the cells the client gives back at position c of its calls
GivenAt(c) ==
    IF c >= 0 THEN handles
    ELSE IF SetupScript[c + SetupCalls + 1].op = "deallocate"
    THEN {h \in handles : get_size_bytes(h) = SetupScript[c + SetupCalls + 1].n}
    ELSE {}

InitSearch ==
    \E c \in StoreCaps :
        \E i \in {init([mem |-> <<>>, pages |-> 1, spawned |-> 0, cap |-> c, trap |-> FALSE], 0)} :
            /\ cap = c
            /\ mem = i.s.mem
            /\ pages = i.s.pages
            /\ spawned = i.s.spawned
            /\ sma = i.r
            /\ handles = {}
            /\ calls = -SetupCalls
            /\ last = [op |-> "init", n |-> 0, old |-> None, ret |-> None, trapped |-> FALSE,
                       pre |-> 0, before |-> ZeroBuf(0)]

NextSearch ==
    \/ \E n \in AskedAt(calls) : Allocate(n)
    \/ \E h \in GivenAt(calls) : Deallocate(h)

SpecSearch == InitSearch /\ [][NextSearch]_vars

----------------------------------------------------------------------------
(* get_seg_class_id over the whole of usize: a size is held as the set of   *)
(* the positions of its binary digits that are 1, so that sizes up to 2^64  *)
(* are in reach of the model                                                *)

\* the number of binary digits of a usize on the 64-bit targets the sizes up
\* to 2^63 belong to
USIZE_BITS == 64

\* the position of the highest digit of x that is 1
top_bit(x) == CHOOSE i \in x : \A j \in x : j <= i

\* a < b for two sizes
usize_lt(a, b) ==
    /\ a # b
    /\ top_bit((a \ b) \cup (b \ a)) \in b

\* 2usize.pow(log)
usize_pow2(log) == {log}

\* the size as a number, for the sizes the model's numbers hold
RECURSIVE usize_value(_)
usize_value(x) ==
    IF x = {} THEN 0 ELSE 2 ^ top_bit(x) + usize_value(x \ {top_bit(x)})

\* utils::math::fast_log2 on the digits: floor(log2(x))
fast_log2_usize(x) == top_bit(x)

\* get_seg_class_id that does not round the logarithm up
seg_class_id_floor(size) ==
    IF fast_log2_usize(size) > 3 THEN fast_log2_usize(size) - 4 ELSE 0

\* get_seg_class_id on the digits of size
seg_class_id_usize(size) ==
    LET log0 == fast_log2_usize(size)
        log == IF usize_lt(usize_pow2(log0), size) THEN log0 + 1 ELSE log0
    IN  IF log > 3 THEN log - 4 ELSE 0

\* the sizes get_seg_class_id is called with: for every j from 4 to 62 the
\* power 2^j, 2^j + 1, 2^j + 2^(j-1) and 2^(j+1) - 1
ClassSizes ==
    UNION {{ {j}, {j, 0}, {j, j - 1}, 0..j } : j \in 4..(USIZE_BITS - 2)}

InitClass ==
    /\ mem = <<>>
    /\ pages = 0
    /\ spawned = 0
    /\ cap = 0
    /\ sma = None
    /\ handles = {}
    /\ calls = 0
    /\ \E size \in ClassSizes : last = [op |-> "size", size |-> size, ret |-> None]

\* the call get_seg_class_id(size)
GetSegClassId ==
    /\ last.op = "size"
    /\ last' = [op |-> "get_seg_class_id", size |-> last.size,
                ret |-> Some(seg_class_id_usize(last.size))]
    /\ calls' = calls + 1
    /\ UNCHANGED <<mem, pages, spawned, cap, sma, handles>>

NextClass == GetSegClassId

SpecClass == InitClass /\ [][NextClass]_vars

----------------------------------------------------------------------------
(* What the properties read from the store *)

StoreEnd == pages * PAGE_SIZE_BYTES

\* the word at address addr
WordAt(addr) == from_le_bytes(stable_read(Store, addr, PTR_SIZE))

allocated_bytes == get_allocated_size(Store, sma)

free_bytes == get_free_size(Store, sma)

\* The walk by boundary tags from address ptr: the cell the header word at ptr
\* describes, then the cell that starts where it ends.  The walk stops at the
\* end of the store, and at a header word that describes no cell (a payload
\* under CELL_MIN_SIZE, or an end beyond the store).
RECURSIVE CellsFrom(_)
CellsFrom(ptr) ==
    IF ptr + CELL_META_SIZE * 2 > StoreEnd THEN <<>>
    ELSE LET m == read_meta(Store, ptr)
             next == ptr + CELL_META_SIZE * 2 + m[1]
         IN  IF m[1] < CELL_MIN_SIZE \/ next > StoreEnd THEN <<>>
             ELSE <<SSlice(ptr, m[1], m[2])>> \o CellsFrom(next)

\* the cells of the walk from offset 0, and where the walk stops
Cells == CellsFrom(0)

WalkEnd == IF Cells = <<>> THEN 0 ELSE get_next_neighbor_ptr(Cells[Len(Cells)])

FreeCells == {Cells[i] : i \in {j \in DOMAIN Cells : ~Cells[j].allocated}}

AllocatedCells == {Cells[i] : i \in {j \in DOMAIN Cells : Cells[j].allocated}}

RECURSIVE TotalSize(_)
TotalSize(cells) ==
    IF cells = {} THEN 0
    ELSE LET c == CHOOSE c \in cells : TRUE
         IN  get_total_size_bytes(c) + TotalSize(cells \ {c})

\* header and footer word of the cell are the tag of an allocated cell of its size
TaggedAllocated(c) ==
    /\ read_meta(Store, get_ptr(c)) = <<get_size_bytes(c), TRUE>>
    /\ read_meta(Store, get_ptr(c) + CELL_META_SIZE + get_size_bytes(c))
           = <<get_size_bytes(c), TRUE>>

\* The list of class k as the next pointers give it: the nodes from the head
\* on, each with the cell the tag at its address describes and its two pointer
\* words.  A pointer to an address already visited, or to no cell, ends the
\* list with a node that is marked broken.
RECURSIVE ListFrom(_, _)
ListFrom(ptr, seen) ==
    IF ptr = EMPTY_PTR THEN <<>>
    ELSE IF ptr \in seen \/ ~from_ptr(Store, ptr, Start).some
    THEN <<[broken |-> TRUE, ptr |-> ptr]>>
    ELSE LET c == from_ptr(Store, ptr, Start).v
             node == [broken |-> FALSE, ptr |-> ptr, cell |-> c,
                      prev |-> WordAt(ptr + CELL_META_SIZE),
                      next |-> WordAt(ptr + CELL_META_SIZE + PTR_SIZE)]
         IN  <<node>> \o ListFrom(node.next, seen \cup {ptr})

ClassIds == 0..(SEG_CLASS_PTRS_COUNT - 1)

FreeList(k) ==
    ListFrom(WordAt(get_ptr(sma) + CELL_META_SIZE + get_seg_class_head_offset(k)), {})

----------------------------------------------------------------------------
(* C1 *)

\* C1: after init(0) and any sequence of allocate, deallocate, reallocate and
\* reset calls, calls that grow the store included, allocated_bytes +
\* free_bytes + the total size of the header cell is current_pages * PAGE_SIZE.
C1_BytesAccounted ==
    allocated_bytes + free_bytes + get_total_size_bytes(sma) = pages * PAGE_SIZE_BYTES

\* the store has grown, cells are allocated, and a cell was moved
C1_Witness ==
    /\ pages > MaxInitPages
    /\ allocated_bytes > 0
    /\ last.op = "reallocate"
    /\ ~last.trapped

----------------------------------------------------------------------------
(* C2 *)

\* C2: in every reachable state the walk from offset 0 by boundary tags visits
\* cells that abut, each with a footer word identical to its header word, and
\* it ends exactly at current_pages * PAGE_SIZE.
C2_Tiling ==
    /\ Cells # <<>>
    /\ get_ptr(Cells[1]) = 0
    /\ \A i \in DOMAIN Cells :
           /\ i > 1 => get_ptr(Cells[i]) = get_next_neighbor_ptr(Cells[i - 1])
           /\ stable_read(Store, get_ptr(Cells[i]), CELL_META_SIZE)
                  = stable_read(Store, get_ptr(Cells[i]) + CELL_META_SIZE
                                           + get_size_bytes(Cells[i]), CELL_META_SIZE)
    /\ WalkEnd = pages * PAGE_SIZE_BYTES

\* the store has grown and holds the header, two allocated cells and free cells
\* on both sides of an allocated one
C2_Witness ==
    /\ pages > MaxInitPages
    /\ Len(Cells) >= 5
    /\ \E i \in DOMAIN Cells : i > 1 /\ i < Len(Cells) /\ ~Cells[i].allocated

----------------------------------------------------------------------------
(* C3 *)

\* C3: after every completed public operation no two physically adjacent cells
\* are both free.
C3_Coalesced ==
    \A i \in DOMAIN Cells :
        i > 1 => Cells[i - 1].allocated \/ Cells[i].allocated

\* a deallocate has merged the cell with the free cells on both of its sides
C3_Witness ==
    /\ last.op = "deallocate"
    /\ ~last.trapped
    /\ \E c \in FreeCells :
           /\ get_ptr(c) < get_ptr(last.old.v)
           /\ get_next_neighbor_ptr(c) > get_next_neighbor_ptr(last.old.v)

----------------------------------------------------------------------------
(* C4 *)

\* C4: in every reachable state, for every size class k, the list from
\* class_heads[k] ends at the empty sentinel without revisiting a cell, holds
\* only free cells of the tiling whose payload size is of class k, its head's
\* prev pointer is the allocator's pointer, and every other cell C of it has
\* C.prev.next = C, and C.next.prev = C when C has a next.
C4_FreeLists ==
    \A k \in ClassIds :
        LET list == FreeList(k)
        IN  \A i \in DOMAIN list :
                /\ ~list[i].broken
                /\ list[i].cell \in FreeCells
                /\ get_seg_class_id(get_size_bytes(list[i].cell)) = k
                /\ i = 1 => list[i].prev = get_ptr(sma)
                /\ i > 1 =>
                       /\ from_ptr(Store, list[i].prev, Start).some
                       /\ WordAt(list[i].prev + CELL_META_SIZE + PTR_SIZE) = list[i].ptr
                       /\ list[i].next # EMPTY_PTR =>
                              WordAt(list[i].next + CELL_META_SIZE) = list[i].ptr

\* the list of some class holds a head and a cell behind it
C4_Witness ==
    \E k \in ClassIds :
        /\ Len(FreeList(k)) >= 2
        /\ ~FreeList(k)[2].broken
        /\ FreeList(k)[2].prev = FreeList(k)[1].ptr

----------------------------------------------------------------------------
(* C5 *)

\* C5: in every reachable state free_bytes is the sum of the total sizes of
\* the free cells of the tiling, and allocated_bytes is the sum of the total
\* sizes of its allocated cells other than the allocator's header cell.
C5_Counters ==
    /\ free_bytes = TotalSize(FreeCells)
    /\ allocated_bytes = TotalSize(AllocatedCells \ {Cells[1]})

\* two cells are allocated and two are free
C5_Witness ==
    /\ Cardinality(AllocatedCells \ {Cells[1]}) >= 2
    /\ Cardinality(FreeCells) >= 2

----------------------------------------------------------------------------
(* C6 *)

AllocateReturned == last.op = "allocate" /\ ~last.trapped

\* C6: every allocate(n) that returns yields a cell with a payload of at least
\* max(n, 16) bytes whose header and footer in the store both have the
\* allocated flag set.
C6_AllocateCell ==
    AllocateReturned =>
        /\ get_size_bytes(last.ret.v) >= last.n
        /\ get_size_bytes(last.ret.v) >= CELL_MIN_SIZE
        /\ TaggedAllocated(last.ret.v)

\* allocate(n) with n under 16 has returned a cell of 16 bytes, in a store
\* that three earlier calls have worked on
C6_Witness ==
    /\ AllocateReturned
    /\ last.n < CELL_MIN_SIZE
    /\ get_size_bytes(last.ret.v) = CELL_MIN_SIZE
    /\ calls >= 4

----------------------------------------------------------------------------
(* C7 *)

\* C7: every allocate(n) that returns yields a cell whose whole payload, the
\* two words that held the free-list pointers included, reads as zero,
\* whatever the bytes under it were before.
C7_AllocateZeroed ==
    AllocateReturned =>
        _read_bytes(Store, last.ret.v, 0, get_size_bytes(last.ret.v)).at = <<>>

\* the bytes under the returned payload held the client's data before the call,
\* beyond the two pointer words
C7_Witness ==
    /\ AllocateReturned
    /\ \E i \in DOMAIN last.before.at : i >= PTR_SIZE * 2

----------------------------------------------------------------------------
(* C8 *)

\* C8: allocate(n) raises allocated_bytes by exactly the total size of the
\* returned cell, so strictly, and a deallocate of that cell right after it
\* puts allocated_bytes back to its value before the allocate.
C8_AllocateDeallocate ==
    AllocateReturned =>
        /\ allocated_bytes = last.pre + get_total_size_bytes(last.ret.v)
        /\ allocated_bytes > last.pre
        /\ ~deallocate(Store, sma, last.ret.v).trap
        /\ get_allocated_size(deallocate(Store, sma, last.ret.v), sma) = last.pre

\* the allocate was made while another cell was allocated
C8_Witness ==
    /\ AllocateReturned
    /\ last.pre > 0

----------------------------------------------------------------------------
(* C9 *)

\* C9: after any sequence of allocate and reallocate calls and then the
\* deallocation of every cell still allocated, allocated_bytes is 0 and the
\* free lists hold exactly one cell, from the end of the header cell to
\* current_pages * PAGE_SIZE.
C9_AllFreed ==
    handles = {} =>
        /\ allocated_bytes = 0
        /\ \E k \in ClassIds :
               /\ Len(FreeList(k)) = 1
               /\ ~FreeList(k)[1].broken
               /\ get_ptr(FreeList(k)[1].cell) = get_next_neighbor_ptr(sma)
               /\ get_next_neighbor_ptr(FreeList(k)[1].cell) = pages * PAGE_SIZE_BYTES
               /\ ~FreeList(k)[1].cell.allocated
               /\ \A j \in ClassIds \ {k} : FreeList(j) = <<>>

\* the last of the cells was deallocated, in a store that has grown, after at
\* least two cells were allocated
C9_Witness ==
    /\ handles = {}
    /\ last.op = "deallocate"
    /\ ~last.trapped
    /\ pages > MaxInitPages
    /\ calls >= 4

----------------------------------------------------------------------------
(* C10 *)

ReallocateGrew ==
    /\ last.op = "reallocate"
    /\ ~last.trapped
    /\ last.n >= get_size_bytes(last.old.v)

\* what reallocate returns: an allocated cell of at least new_size bytes whose
\* first old_payload_size bytes are the old payload
ReallocateCell ==
    /\ TaggedAllocated(last.ret.v)
    /\ get_size_bytes(last.ret.v) >= last.n
    /\ _read_bytes(Store, last.ret.v, 0, get_size_bytes(last.old.v)) = last.before

\* an allocated cell of the tiling starts where the old cell started
OldCellAllocated == \E c \in AllocatedCells : get_ptr(c) = get_ptr(last.old.v)

\* C10 as the specification states it: reallocate(cell, new_size) with
\* new_size >= the old payload size returns an allocated cell of at least
\* new_size bytes whose first old_payload_size bytes are the old payload, and
\* the old cell is no longer allocated.
C10_AsStated ==
    ReallocateGrew => ReallocateCell /\ ~OldCellAllocated

\* C10, amended: reallocate(cell, new_size) with new_size >= the old payload
\* size returns an allocated cell of at least new_size bytes whose first
\* old_payload_size bytes are the old payload, and the only allocated cell that
\* can start at the old cell's pointer is the returned cell.
C10_Reallocate ==
    ReallocateGrew =>
        /\ ReallocateCell
        /\ OldCellAllocated => get_ptr(last.ret.v) = get_ptr(last.old.v)

\* a cell that holds the client's data has moved to a larger cell at another
\* address
C10_Witness ==
    /\ ReallocateGrew
    /\ DOMAIN last.before.at # {}
    /\ get_ptr(last.ret.v) # get_ptr(last.old.v)
    /\ get_size_bytes(last.ret.v) > get_size_bytes(last.old.v)

----------------------------------------------------------------------------
(* C11 *)

\* the first n bytes of a buffer
Prefix(buf, n) == [len |-> n, at |-> [i \in {j \in DOMAIN buf.at : j < n} |-> buf.at[i]]]

\* the last call was reallocate(cell, new_size) with new_size under the payload
\* size of the cell
ReallocateShrunk ==
    /\ last.op = "reallocate"
    /\ last.n < get_size_bytes(last.old.v)

\* C11 as the specification states it: reallocate(cell, new_size) with new_size
\* smaller than the old payload size does not trap, and the first
\* min(old_size, new_size) payload bytes of the cell it returns are the old
\* payload.
C11_AsStated ==
    ReallocateShrunk =>
        /\ ~last.trapped
        /\ _read_bytes(Store, last.ret.v, 0, last.n) = Prefix(last.before, last.n)
----------------------------------------------------------------------------
(* C12 *)

\* every persisted field of the allocator, read from the store s through the
\* handle self: the class-head table, the two counters, the knobs, the flag
\* and the custom pointers
PersistedFields(s, self) ==
    [class_heads |-> [k \in ClassIds |-> _read_word(s, self, get_seg_class_head_offset(k))],
     allocated_bytes |-> get_allocated_size(s, self),
     free_bytes |-> get_free_size(s, self),
     max_alloc_pages |-> get_max_allocation_pages(s, self),
     max_grow_pages |-> get_max_grow_pages(s, self),
     on_low_fired |-> get_on_low_executed_flag(s, self),
     custom_ptrs |-> [i \in 0..(CUSTOM_DATA_PTRS_COUNT - 1) |-> get_custom_data_ptr(s, self, i)]]

\* C12: after init(offset) and any sequence of allocator operations,
\* reinit(offset) returns a handle (not none), writes nothing to the backing
\* store, and every persisted field read through the handle equals its value
\* before the reinit.
C12_Reinit ==
    last.op = "reinit" =>
        /\ last.ret.some
        /\ get_ptr(last.ret.v) = last.n
        /\ mem = last.before.mem
        /\ pages = last.before.pages
        /\ PersistedFields(Store, last.ret.v) = PersistedFields(last.before, last.old.v)

\* reinit has answered in a store that holds allocated cells and a table of
\* class heads with a head in it
C12_Witness ==
    /\ last.op = "reinit"
    /\ last.ret.some
    /\ allocated_bytes > 0
    /\ \E k \in ClassIds : PersistedFields(Store, last.ret.v).class_heads[k] # EMPTY_PTR
----------------------------------------------------------------------------
(* C13 *)

\* in the store s there is no allocator at offset: no cell starts there, or
\* the tag there is free, or its size is not the size of the header, or the
\* four bytes after the tag are not the magic
Mismatch(s, offset) ==
    \/ offset >= stable_size_pages(s) * PAGE_SIZE_BYTES
    \/ ~read_meta(s, offset)[2]
    \/ read_meta(s, offset)[1] # SIZE
    \/ stable_read(s, offset + CELL_META_SIZE, Len(MAGIC)) # SeqBuf(MAGIC)

----------------------------------------------------------------------------
(* C14 *)

\* C14 as the specification states it: after reset(), and therefore after
\* init, get_custom_data_ptr(i) returns the empty sentinel u64::MAX for every
\* i in 0..3, whatever the custom pointers held before.
C14_AsStated ==
    (last.op \in {"init", "reset"} /\ ~last.trapped) =>
        \A i \in 0..(CUSTOM_DATA_PTRS_COUNT - 1) :
            get_custom_data_ptr(Store, sma, i) = EMPTY_PTR
----------------------------------------------------------------------------
(* C15 *)

\* the classes whose head is not the empty sentinel
HeadedClasses == {k \in ClassIds : Len(FreeList(k)) > 0}

\* C15: after reset() called in any reachable state (after allocations, growth
\* and a fired low-memory notification included), allocated_bytes == 0,
\* free_bytes == current_pages * PAGE_SIZE - header.total_size,
\* max_alloc_pages == 180, max_grow_pages == 0, on_low_fired == false, and
\* exactly one class head is non-empty, pointing at a single free cell that
\* spans [header_end, current_pages * PAGE_SIZE).
C15_Reset ==
    last.op = "reset" =>
        /\ ~last.trapped
        /\ allocated_bytes = 0
        /\ free_bytes = StoreEnd - get_total_size_bytes(sma)
        /\ get_max_allocation_pages(Store, sma) = DEFAULT_MAX_ALLOCATION_PAGES
        /\ get_max_grow_pages(Store, sma) = DEFAULT_MAX_GROW_PAGES
        /\ ~get_on_low_executed_flag(Store, sma)
        /\ Cardinality(HeadedClasses) = 1
        /\ \A k \in HeadedClasses :
               /\ Len(FreeList(k)) = 1
               /\ ~FreeList(k)[1].broken
               /\ FreeList(k)[1].ptr = get_next_neighbor_ptr(sma)
               /\ ~FreeList(k)[1].cell.allocated
               /\ get_next_neighbor_ptr(FreeList(k)[1].cell) = StoreEnd

\* reset has run in a store that has grown, that held allocated cells, and
\* whose low-memory notification has fired
C15_Witness ==
    /\ last.op = "reset"
    /\ ~last.trapped
    /\ pages > 1
    /\ last.pre > 0
    /\ spawned > 0
----------------------------------------------------------------------------
(* C16 *)

\* The last call was an allocate that returned and left free_bytes under the
\* free buffer target: the handle_free_buffer that ends allocate asked for
\* growth, and the growth was capped or refused (a growth that is granted
\* brings free_bytes to the target).
GrowthDeniedInAllocate ==
    /\ last.op = "allocate"
    /\ ~last.trapped
    /\ free_bytes < get_max_allocation_pages(Store, sma) * PAGE_SIZE_BYTES

\* C16 as the specification states it, in a state where a growth has just been
\* capped or refused: the on_low_stable_memory callback has been enqueued (at
\* the first capped or refused growth) and on_low_fired is true.
C16_AsStated ==
    GrowthDeniedInAllocate =>
        /\ get_on_low_executed_flag(Store, sma)
        /\ spawned >= 1
----------------------------------------------------------------------------
(* C17 *)

\* the knobs and the flag as the allocator reads them
max_grow_pages == get_max_grow_pages(Store, sma)
max_alloc_pages == get_max_allocation_pages(Store, sma)
on_low_fired == get_on_low_executed_flag(Store, sma)

\* the free buffer is under its target
BufferLow == free_bytes < max_alloc_pages * PAGE_SIZE_BYTES

\* the pages the free buffer needs
PagesNeeded == max_alloc_pages - free_bytes \div PAGE_SIZE_BYTES + 1

\* the free buffer needs pages and the cap forbids them
Capped ==
    /\ max_grow_pages # 0
    /\ BufferLow
    /\ pages + PagesNeeded >= max_grow_pages

----------------------------------------------------------------------------
(* C18 *)

\* the host grants every growth and no cap is set
GrowthUnlimited == cap = HUGE /\ max_grow_pages = 0

\* C18 as the specification states it: with max_grow_pages == 0 and a backing
\* store that grants every growth request, in every reachable state
\* allocate(n) with n <= max_alloc_pages * PAGE_SIZE returns a cell and never
\* traps with OutOfMemory.
C18_AsStated ==
    (/\ GrowthUnlimited
     /\ last.op = "allocate"
     /\ last.n <= max_alloc_pages * PAGE_SIZE_BYTES) => ~last.trapped
----------------------------------------------------------------------------
(* C19 *)

\* The first handle_free_buffer of an allocate call made in this state asks
\* for growth, and the growth is capped by max_grow_pages or refused by the
\* host.  (A call that traps leaves the store as it was at the call, and a
\* call that traps has not reached its second handle_free_buffer.)
GrowthDeniedAtCall ==
    /\ BufferLow
    /\ \/ max_grow_pages # 0 /\ pages + PagesNeeded >= max_grow_pages
       \/ pages + PagesNeeded > cap

\* the payload size allocate looks for
Wanted(n) == IF n < CELL_MIN_SIZE THEN CELL_MIN_SIZE ELSE n

\* C19 as the specification states it: allocate(n), for any n, traps with
\* OutOfMemory only in a call where growth was capped by max_grow_pages or
\* refused by the backing store.
C19_AsStated ==
    (last.op = "allocate" /\ last.trapped) => GrowthDeniedAtCall

\* C19, amended: allocate(n), for any n, traps with OutOfMemory only when no
\* free cell of the store it is called in has a payload of at least
\* max(n, 16) bytes; an allocate call made when there is such a cell always
\* returns a cell.
C19_Allocate ==
    (last.op = "allocate" /\ last.trapped) =>
        \A c \in FreeCells : get_size_bytes(c) < Wanted(last.n)

\* allocate has trapped in a call in which no growth was capped or refused,
\* in a store that has free cells
C19_Witness ==
    /\ last.op = "allocate"
    /\ last.trapped
    /\ ~GrowthDeniedAtCall
    /\ FreeCells # {}
    /\ free_bytes >= max_alloc_pages * PAGE_SIZE_BYTES
----------------------------------------------------------------------------
(* C20 *)

\* C20: with max_grow_pages == 0 and a backing store that grants every growth
\* request, after every allocate that returns,
\* free_bytes >= max_alloc_pages * PAGE_SIZE.
C20_FreeBuffer ==
    (GrowthUnlimited /\ last.op = "allocate" /\ ~last.trapped) =>
        free_bytes >= max_alloc_pages * PAGE_SIZE_BYTES

\* allocate has returned a cell that took the free buffer under its target,
\* and the store has grown again behind it
C20_Witness ==
    /\ GrowthUnlimited
    /\ last.op = "allocate"
    /\ ~last.trapped
    /\ get_size_bytes(last.ret.v) >= DEFAULT_MAX_ALLOCATION_PAGES * PAGE_SIZE_BYTES
    /\ StoreEnd >= get_next_neighbor_ptr(last.ret.v) + max_alloc_pages * PAGE_SIZE_BYTES
----------------------------------------------------------------------------
(* C21 *)

\* the tag at the pointer of the handle says the cell is free
FreeInStore(h) == ~read_meta(Store, get_ptr(h))[2]

\* C21: a deallocate of a cell that is free in the store at the time of the
\* call (the second deallocate of a cell, through a kept or a cloned handle)
\* traps, and so leaves the counters, the free lists and the tags as they were.
\* The implementation tests the flag cached in the handle: through a handle
\* copied before the first deallocate the second call is carried out.  (The
\* calls whose subtraction from the allocated counter would go below zero are
\* left out: their outcome depends on the build.)
C21_AsStated ==
    [][(/\ calls' = calls + 1
        /\ last'.op = "deallocate"
        /\ FreeInStore(last'.old.v)
        /\ allocated_bytes >= get_total_size_bytes(last'.old.v))
           => (last'.trapped /\ mem' = mem)]_vars
----------------------------------------------------------------------------
(* C22 *)

\* header and footer word of the cell are the tag the handle c describes
Tagged(s, c) ==
    /\ read_meta(s, get_ptr(c)) = get_meta(c)
    /\ read_meta(s, get_ptr(c) + CELL_META_SIZE + get_size_bytes(c)) = get_meta(c)

\* a step that is a call of split on a free cell, at the payload size of a cell
SplitStep ==
    /\ calls' = calls + 1
    /\ last'.op = "split"
    /\ ~last'.self.allocated
    /\ last'.arg >= CELL_MIN_SIZE

\* C22: split(first) on a free cell of payload S succeeds iff
\* S >= first + 2 * PTR_SIZE + 2 * CELL_META_SIZE, so a remainder of exactly
\* CELL_MIN_SIZE is accepted.  On success the two cells are free and tagged as
\* such in the store, have payloads first and S - first - 2 * CELL_META_SIZE,
\* the second starts where the first ends and ends where the original ended.
\* Otherwise the original handle comes back and the store is as it was.
C22_Split ==
    [][SplitStep =>
        LET c == last'.self
            first == last'.arg
            S == get_size_bytes(c)
            r == last'.ret
        IN  /\ ~last'.trapped
            /\ r.ok <=> S >= first + 2 * PTR_SIZE + 2 * CELL_META_SIZE
            /\ r.ok =>
                  /\ r.v[1] = SSlice(get_ptr(c), first, FALSE)
                  /\ r.v[2] = SSlice(get_ptr(c) + first + 2 * CELL_META_SIZE,
                                     S - first - 2 * CELL_META_SIZE, FALSE)
                  /\ get_next_neighbor_ptr(r.v[1]) = get_ptr(r.v[2])
                  /\ get_next_neighbor_ptr(r.v[2]) = get_next_neighbor_ptr(c)
                  /\ Tagged(Store', r.v[1])
                  /\ Tagged(Store', r.v[2])
            /\ ~r.ok => (r.v = c /\ mem' = mem /\ Tagged(Store', c))]_vars

\* a split that left a remainder of exactly CELL_MIN_SIZE has been made
C22_Witness ==
    /\ last.op = "split"
    /\ ~last.trapped
    /\ last.ret.ok
    /\ get_size_bytes(last.ret.v[2]) = CELL_MIN_SIZE
    /\ Tagged(Store, last.ret.v[2])
----------------------------------------------------------------------------
(* C23 *)

\* a and b are one after the other in the store, in this order
Adjacent(a, b) == get_next_neighbor_ptr(a) = get_ptr(b)

\* a step that is a call of merge_with_neighbor on two free cells that are
\* physical neighbours, given in either order
MergeStep ==
    /\ calls' = calls + 1
    /\ last'.op = "merge_with_neighbor"
    /\ ~last'.self.allocated
    /\ ~last'.arg.allocated
    /\ Adjacent(last'.self, last'.arg) \/ Adjacent(last'.arg, last'.self)

\* the step merges the two cells the call before it split a cell into
Remerge ==
    /\ last.op = "split"
    /\ ~last.trapped
    /\ last.ret.ok
    /\ {last'.self, last'.arg} = {last.ret.v[1], last.ret.v[2]}

\* C23: the merge of two free physical neighbours of payloads Sa and Sb, in
\* either argument order, yields one free cell of payload
\* Sa + Sb + 2 * CELL_META_SIZE that starts at the lower pointer and is tagged
\* as such in the store; when the two are the halves a split has just made of
\* a cell C, the merged cell has C's pointer, C's payload size and C's end.
C23_Merge ==
    [][MergeStep =>
        LET a == last'.self
            b == last'.arg
            lower == IF get_ptr(a) < get_ptr(b) THEN get_ptr(a) ELSE get_ptr(b)
        IN  /\ ~last'.trapped
            /\ last'.ret.v = SSlice(lower,
                                    get_size_bytes(a) + get_size_bytes(b) + 2 * CELL_META_SIZE,
                                    FALSE)
            /\ Tagged(Store', last'.ret.v)
            /\ Remerge =>
                  /\ get_ptr(last'.ret.v) = get_ptr(last.self)
                  /\ get_meta(last'.ret.v) = <<get_size_bytes(last.self), FALSE>>
                  /\ get_next_neighbor_ptr(last'.ret.v) = get_next_neighbor_ptr(last.self)]_vars

\* the two halves of a split of the second cell have been merged again, the
\* upper half being the one the call was made on
C23_Witness ==
    /\ last.op = "merge_with_neighbor"
    /\ ~last.trapped
    /\ get_ptr(last.self) > get_ptr(last.arg)
    /\ get_size_bytes(last.ret.v) \in SecondSizes
    /\ Tagged(Store, last.ret.v)
----------------------------------------------------------------------------
(* C24 *)

\* the ranges (offset, length) of the payload of h the property reads back
Ranges(h) ==
    {r \in (Offsets(h) \cup {4, PTR_SIZE}) \X {4, PTR_SIZE} :
        r[1] + r[2] <= get_size_bytes(h)}

\* the rows of the store whose bytes differ between the memories m and n
RowsChanged(m, n) == {k \in DOMAIN m \cup DOMAIN n : RowOf(m, k) # RowOf(n, k)}

\* a step that is a call of _write_bytes, and one that is a call of _read_bytes
WriteStep == calls' = calls + 1 /\ last'.op = "_write_bytes"
ReadStep == calls' = calls + 1 /\ last'.op = "_read_bytes"

\* the call reaches beyond the payload of the cell it is made on
Beyond(call) ==
    call.arg[1] + (IF call.op = "_write_bytes" THEN call.arg[2].len ELSE call.arg[2])
        > get_size_bytes(call.self)

\* C24: a read or a write that reaches beyond the payload traps and leaves
\* every byte of the store as it was.  A write inside the payload changes no
\* byte outside the range it is given, so the ranges of the payload that are
\* disjoint from it read as before, and the range itself reads as the bytes
\* written; a read inside the payload returns the bytes of the store at its
\* range, which after a write of the same range are the bytes written.
C24_PayloadAccess ==
    [][/\ (WriteStep \/ ReadStep) /\ Beyond(last') => (last'.trapped /\ mem' = mem)
       /\ WriteStep /\ ~Beyond(last') =>
            LET h == last'.self
                offset == last'.arg[1]
                data == last'.arg[2]
                from == get_ptr(h) + CELL_META_SIZE + offset
            IN  /\ ~last'.trapped
                /\ _read_bytes(Store', h, offset, data.len) = data
                /\ \A k \in RowsChanged(mem, mem') :
                       k * ROW + ROW > from /\ k * ROW < from + data.len
                /\ \A r \in Ranges(h) :
                       (r[1] + r[2] <= offset \/ offset + data.len <= r[1])
                           => _read_bytes(Store', h, r[1], r[2]) = _read_bytes(Store, h, r[1], r[2])
                /\ Tagged(Store', h)
       /\ ReadStep /\ ~Beyond(last') =>
            /\ ~last'.trapped
            /\ mem' = mem
            /\ last'.ret.v = stable_read(Store, get_ptr(last'.self) + CELL_META_SIZE + last'.arg[1],
                                         last'.arg[2])
            /\ (/\ last.op = "_write_bytes"
                /\ ~last.trapped
                /\ last.self = last'.self
                /\ last.arg[1] = last'.arg[1]
                /\ last.arg[2].len = last'.arg[2])
                   => last'.ret.v = last.arg[2]]_vars

\* four bytes written at the very end of a payload are in the store and the
\* eight bytes written before at the start of the payload are still there
C24_Witness ==
    /\ last.op = "_write_bytes"
    /\ ~last.trapped
    /\ last.arg[1] + last.arg[2].len = get_size_bytes(last.self)
    /\ _read_bytes(Store, last.self, last.arg[1], 4) = SeqBuf(<<1, 3, 3, 7>>)
    /\ _read_bytes(Store, last.self, 0, PTR_SIZE) = SeqBuf(<<1, 2, 3, 4, 5, 6, 7, 8>>)
----------------------------------------------------------------------------
(* C25 *)

\* a step that is a call of set_custom_data_ptr on one of the four slots
SetCustomStep ==
    /\ calls' = calls + 1
    /\ last'.op = "set_custom_data_ptr"
    /\ last'.n[1] \in CustomDataIdx

\* where slot idx starts in the store, and where max_grow_pages ends
CustomSlot(idx) ==
    get_ptr(sma) + CELL_META_SIZE
        + Len(MAGIC) + SEG_CLASS_PTRS_COUNT * PTR_SIZE + PTR_SIZE * 4 + 1 + idx * PTR_SIZE
MaxGrowPagesEnd ==
    get_ptr(sma) + CELL_META_SIZE
        + Len(MAGIC) + SEG_CLASS_PTRS_COUNT * PTR_SIZE + PTR_SIZE * 3 + 1 + PTR_SIZE

\* C25: for idx in 0..3 and a pointer p, set_custom_data_ptr(idx, p) makes
\* get_custom_data_ptr(idx) return p and leaves max_grow_pages, max_alloc_pages,
\* on_low_fired, the two counters, the class heads and the other three custom
\* pointers as they were: the bytes it changes are all in slot idx, which
\* starts at or after the end of max_grow_pages and ends inside the payload of
\* the header.
C25_CustomPtr ==
    [][SetCustomStep =>
        LET idx == last'.n[1]
            p == last'.n[2]
            was == PersistedFields(Store, sma)
            is == PersistedFields(Store', sma)
        IN  /\ ~last'.trapped
            /\ get_custom_data_ptr(Store', sma, idx) = p
            /\ is = [was EXCEPT !.custom_ptrs[idx] = p]
            /\ \A k \in RowsChanged(mem, mem') :
                   k * ROW + ROW > CustomSlot(idx) /\ k * ROW < CustomSlot(idx) + PTR_SIZE
            /\ CustomSlot(idx) >= MaxGrowPagesEnd
            /\ CustomSlot(idx) + PTR_SIZE <= get_ptr(sma) + CELL_META_SIZE + get_size_bytes(sma)]_vars

\* the last slot holds the pointer the client has just written and the first
\* slot still holds the pointer written before
C25_Witness ==
    /\ last.op = "set_custom_data_ptr"
    /\ ~last.trapped
    /\ last.n = <<CUSTOM_DATA_PTRS_COUNT - 1, EMPTY_PTR>>
    /\ get_custom_data_ptr(Store, sma, CUSTOM_DATA_PTRS_COUNT - 1) = EMPTY_PTR
    /\ get_custom_data_ptr(Store, sma, 0) = SIZE + CELL_META_SIZE * 2
----------------------------------------------------------------------------
(* C26 *)

\* a step that is a call of from_ptr
FromPtrStep == calls' = calls + 1 /\ last'.op = "from_ptr"

\* the call is made at the start of the cell c, or at the end of c from the
\* End side
Names(call, c) ==
    \/ call.arg = <<get_ptr(c), Start>>
    \/ call.arg = <<get_next_neighbor_ptr(c), End>>

\* C26: for every cell C of the store, the last one included, whose end is the
\* end of the store, from_ptr(C.ptr, Start) and from_ptr(C.ptr + C.total_size,
\* End) return a handle with C's pointer, payload size and allocated flag.
\* The implementation returns none for every pointer at or beyond the end of
\* the store, whatever the side: the End side of the last cell finds no cell.
C26_AsStated ==
    [][FromPtrStep =>
        \A c \in handles : Names(last', c) => (~last'.trapped /\ last'.ret = Some(c))]_vars
----------------------------------------------------------------------------
(* C27 *)

\* no element of the sequence q goes above an element before it
InHeapOrder(q, ty) == \A i, j \in DOMAIN q : i < j => ~above(ty, q[j], q[i])

\* p and q hold the same elements the same number of times
SameElements(p, q) ==
    \A x \in 1..MaxElem :
        Cardinality({i \in DOMAIN p : p[i] = x}) = Cardinality({i \in DOMAIN q : q[i] = x})

\* C27: after any pushes, the pops that follow return the elements of a Max
\* heap in non-increasing order and those of a Min heap in non-decreasing
\* order; once the heap is empty what was popped is what was pushed; and peek
\* returns the element the next pop returns.  The implementation takes idx / 2
\* for the parent of idx, which is the parent only for odd idx: an element
\* pushed at an even index can stay below a parent it should be above.
C27_AsStated ==
    /\ InHeapOrder(last.popped, sma.ty)
    /\ sma.arr = <<>> => SameElements(last.pushed, last.popped)
    /\ Len(sma.arr) > 0 => peek(sma) = heap_pop(sma).r
----------------------------------------------------------------------------
(* C28 *)

\* the bytes of the cells a and b, tags included, do not overlap
Disjoint(a, b) ==
    \/ get_next_neighbor_ptr(a) <= get_ptr(b)
    \/ get_next_neighbor_ptr(b) <= get_ptr(a)

\* C28: the cells the client holds (returned by allocate or reallocate and
\* not yet given back) and the header cell of the allocator are pairwise
\* disjoint after every call, and the cell an allocate returns overlaps
\* neither the header nor any cell held at the time of the call.
C28_Disjoint ==
    [][/\ \A a \in handles' \cup {sma} : \A b \in (handles' \cup {sma}) \ {a} : Disjoint(a, b)
       /\ (calls' = calls + 1 /\ last'.op = "allocate" /\ ~last'.trapped)
              => \A c \in handles \cup {sma} : Disjoint(last'.ret.v, c)]_vars

\* allocate has returned a cell that lies below a cell the client holds, in
\* the place of a cell given back before, while the client holds MaxLive cells
C28_Witness ==
    /\ last.op = "allocate"
    /\ ~last.trapped
    /\ Cardinality(handles) = MaxLive
    /\ \E c \in handles : get_ptr(last.ret.v) < get_ptr(c)
    /\ \A a \in handles \cup {sma} : \A b \in (handles \cup {sma}) \ {a} : Disjoint(a, b)
----------------------------------------------------------------------------
(* C29 *)

\* the bytes of the cell c in the store s: header, payload and footer
CellBytes(s, c) == stable_read(s, get_ptr(c), get_total_size_bytes(c))

\* a step that is a call of allocate, deallocate or reallocate
AllocatorStep ==
    /\ calls' = calls + 1
    /\ last'.op \in {"allocate", "deallocate", "reallocate"}

\* the cells the client holds before the call other than the one it gives
Others == {c \in handles : ~(last'.old.some /\ last'.old.v = c)}

\* C29: an allocate, a deallocate or a reallocate leaves every cell the client
\* holds, other than the cell the call is given, as it was: the client still
\* holds it, and its payload bytes and its two tags (payload size and
\* allocated flag) are the same bytes as before the call.
C29_OtherCells ==
    [][AllocatorStep =>
        \A c \in Others :
            /\ c \in handles'
            /\ CellBytes(Store', c) = CellBytes(Store, c)
            /\ TaggedAllocated(c)']_vars

\* allocate has zeroed and returned the cell right below a cell whose payload
\* the client has written, and that payload is as written
C29_Witness ==
    /\ last.op = "allocate"
    /\ ~last.trapped
    /\ \E c \in handles :
           /\ get_next_neighbor_ptr(last.ret.v) = get_ptr(c)
           /\ _read_bytes(Store, c, 0, get_size_bytes(c)) = Payload(get_size_bytes(c))
           /\ TaggedAllocated(c)
----------------------------------------------------------------------------
(* C30 *)

\* C30: max_alloc_pages and on_low_fired are independent fields of the
\* header: a call that fires the low-memory notification leaves
\* get_max_allocation_pages() as it was, and set_max_allocation_pages(p)
\* leaves on_low_fired as it was.  In the implementation the flag is the
\* second byte of the word that holds max_alloc_pages.
C30_AsStated ==
    [][/\ (calls' = calls + 1 /\ last'.op = "allocate" /\ ~on_low_fired /\ on_low_fired')
              => max_alloc_pages' = max_alloc_pages
       /\ (calls' = calls + 1 /\ last'.op = "set_max_allocation_pages" /\ ~last'.trapped)
              => on_low_fired' = on_low_fired]_vars
----------------------------------------------------------------------------
(* C31 *)

\* the store pop_allocated_membox starts in: allocate has gone through its
\* first handle_free_buffer
BeforePop == handle_free_buffer(Store, sma)

\* the free cell that the allocate of this step chose: the cell that started,
\* before the pop, where the returned cell starts
Chosen == unwrap(from_ptr(BeforePop, get_ptr(last'.ret.v), Start))

\* the size allocate asks pop_allocated_membox for
Asked == IF last'.n < CELL_MIN_SIZE THEN CELL_MIN_SIZE ELSE last'.n

\* the free cell behind the returned one, in the store after the call
Remainder == from_ptr(Store', get_next_neighbor_ptr(last'.ret.v), Start)

\* C31: whenever the free cell chosen by allocate(n) has a payload S of at
\* least size + 2 * PTR_SIZE + 2 * WORD_SIZE, size = max(n, 16), in the class
\* of the request or in a higher one, the returned cell has a payload of
\* exactly size and the remainder, of payload S - size - 2 * WORD_SIZE, is a
\* free cell; the whole cell is taken only when the remainder would be below
\* the minimum.
C31_AsStated ==
    [][(last'.op = "allocate" /\ ~last'.trapped) =>
           /\ get_size_bytes(Chosen) >= Asked + PTR_SIZE * 2 + CELL_META_SIZE * 2 =>
                  /\ get_size_bytes(last'.ret.v) = Asked
                  /\ Remainder.some
                  /\ ~get_meta(Remainder.v)[2]
                  /\ get_size_bytes(Remainder.v)
                         >= get_size_bytes(Chosen) - Asked - CELL_META_SIZE * 2
           /\ get_size_bytes(last'.ret.v) # Asked =>
                  /\ get_size_bytes(last'.ret.v) = get_size_bytes(Chosen)
                  /\ get_size_bytes(Chosen) < Asked + PTR_SIZE * 2 + CELL_META_SIZE * 2
      ]_vars
----------------------------------------------------------------------------
(* C32 *)

\* the step is a deallocate that returned
DeallocateStep == last'.op = "deallocate" /\ ~last'.trapped

\* the physical neighbours of the cell given to the deallocate of this step, in
\* the store before the call
PrevNeighbor == get_neighbor(Store, last'.old.v, Start)
NextNeighbor == get_neighbor(Store, last'.old.v, End)

BothNeighborsFree ==
    /\ PrevNeighbor.some
    /\ NextNeighbor.some
    /\ ~get_meta(PrevNeighbor.v)[2]
    /\ ~get_meta(NextNeighbor.v)[2]

\* the cell that covers the three
Merged ==
    SSlice(get_ptr(PrevNeighbor.v),
           get_total_size_bytes(PrevNeighbor.v) + get_total_size_bytes(last'.old.v)
               + get_total_size_bytes(NextNeighbor.v) - CELL_META_SIZE * 2,
           FALSE)

\* the list from ptr as the next pointers of store s give it: the address of
\* each node and the cell its tag describes; a pointer to an address already
\* visited, or to no cell, ends the list with a node that is marked broken
RECURSIVE ListIn(_, _, _)
ListIn(s, ptr, seen) ==
    IF ptr = EMPTY_PTR THEN <<>>
    ELSE IF ptr \in seen \/ ~from_ptr(s, ptr, Start).some
    THEN <<[broken |-> TRUE, ptr |-> ptr]>>
    ELSE <<[broken |-> FALSE, ptr |-> ptr, cell |-> from_ptr(s, ptr, Start).v]>>
             \o ListIn(s, _read_word(s, from_ptr(s, ptr, Start).v, PTR_SIZE),
                       seen \cup {ptr})

\* the list of class k in store s
FreeListIn(s, k) == ListIn(s, _read_word(s, sma, get_seg_class_head_offset(k)), {})

\* the nodes of a class list whose address lies in [from, to)
NodesIn(list, from, to) ==
    {i \in DOMAIN list : list[i].ptr >= from /\ list[i].ptr < to}

\* C32: a deallocate of a cell whose previous and next physical neighbours are
\* both free leaves one free cell over the three, its total size the sum of
\* the three total sizes, linked in the list of the class of the merged
\* payload; no class list reaches the two former neighbours any more, and
\* free_bytes counts the merged cell once.
C32_MergeBoth ==
    [][(DeallocateStep /\ BothNeighborsFree) =>
           \E post \in {Store'} :
               /\ Tagged(post, Merged)
               /\ get_total_size_bytes(Merged)
                      = get_total_size_bytes(PrevNeighbor.v)
                            + get_total_size_bytes(last'.old.v)
                            + get_total_size_bytes(NextNeighbor.v)
               /\ \A k \in ClassIds :
                      /\ \A i \in DOMAIN FreeListIn(post, k) : ~FreeListIn(post, k)[i].broken
                      /\ Cardinality(NodesIn(FreeListIn(post, k), get_ptr(Merged),
                                             get_next_neighbor_ptr(Merged)))
                             = IF k = get_seg_class_id(get_size_bytes(Merged)) THEN 1 ELSE 0
                      /\ \A i \in NodesIn(FreeListIn(post, k), get_ptr(Merged),
                                          get_next_neighbor_ptr(Merged)) :
                             FreeListIn(post, k)[i].cell = Merged
               /\ get_free_size(post, sma) = free_bytes + get_total_size_bytes(last'.old.v)
      ]_vars

\* a cell between two free cells has been given back while the client holds
\* another cell, and the three are one free cell now, the only one of its list
C32_Witness ==
    /\ last.op = "deallocate"
    /\ ~last.trapped
    /\ handles # {}
    /\ \E c \in FreeCells :
           /\ get_ptr(c) < get_ptr(last.old.v)
           /\ get_next_neighbor_ptr(c) > get_next_neighbor_ptr(last.old.v)
           /\ Len(FreeList(get_seg_class_id(get_size_bytes(c)))) = 1
           /\ free_bytes = get_total_size_bytes(c)
----------------------------------------------------------------------------
(* C33 *)

\* the sizes pop_allocated_membox is asked for: the smallest cell, two sizes of
\* the class of payloads 65..128, a page, and more than the largest free buffer
\* of the model
SearchSizes == {CELL_MIN_SIZE, 100, 2 ^ 7, 2 ^ 16, 2 ^ 24}

\* the stores a search starts in: the store between two calls, and that store
\* after the handle_free_buffer allocate begins with
SearchStores == {s \in {Store, BeforePop} : ~s.trap}

\* some free cell of some class list of store s has a payload of size or more
Fits(s, size) ==
    \E k \in ClassIds :
        \E i \in DOMAIN FreeListIn(s, k) :
            /\ ~FreeListIn(s, k)[i].broken
            /\ get_size_bytes(FreeListIn(s, k)[i].cell) >= size

\* the class of the request has a head, and the head is too small
HeadTooSmall(s, size) ==
    /\ get_seg_class_head(s, sma, get_seg_class_id(size)).some
    /\ get_size_bytes(get_seg_class_head(s, sma, get_seg_class_id(size)).v) < size

\* C33: pop_allocated_membox(size) fails with OutOfMemory only if no free cell
\* of any class list has a payload of size or more; it never stops at a class
\* whose head is too small while a cell that fits is in that class or a later
\* one.
C33_SearchComplete ==
    \A size \in SearchSizes :
        \A s \in SearchStores :
            \E p \in {pop_allocated_membox(s, sma, size)} :
                /\ (~p.s.trap /\ ~p.r.ok) => ~Fits(s, size)
                /\ Fits(s, size) => (~p.s.trap /\ p.r.ok /\ get_size_bytes(p.r.v) >= size)

\* allocate(100) has passed the head of the request's class, a free cell of
\* 65 bytes that is still the head, and has taken the cell of 128 bytes behind
\* it; in the store it leaves, a search for a larger size finds free cells but
\* none that fits, and fails
C33_Witness ==
    /\ AllocateReturned
    /\ last.n = 100
    /\ get_seg_class_id(get_size_bytes(last.ret.v)) = get_seg_class_id(last.n)
    /\ HeadTooSmall(Store, last.n)
    /\ get_ptr(get_seg_class_head(Store, sma, get_seg_class_id(last.n)).v)
           < get_ptr(last.ret.v)
    /\ \E size \in SearchSizes :
           /\ free_bytes > 0
           /\ ~pop_allocated_membox(Store, sma, size).s.trap
           /\ ~pop_allocated_membox(Store, sma, size).r.ok
----------------------------------------------------------------------------
(* C34 *)

\* the call of this step is get_neighbor(side) of the cell c: from_ptr at the
\* start of c from the End side, or at the end of c from the Start side
NeighborOf(call, c, side) ==
    call.arg = IF side = Start THEN <<get_ptr(c), End>>
               ELSE <<get_next_neighbor_ptr(c), Start>>

\* C34: neighbour discovery at the edges of the store returns none and never
\* traps: get_neighbor(Start) of a cell at offset 0, that is from_ptr(p, End)
\* with p < WORD_SIZE, returns none, and get_neighbor(End) of the cell that
\* ends at current_pages * PAGE_SIZE returns none.  The implementation
\* subtracts CELL_META_SIZE from the pointer before it looks at it: at offset
\* 0 the subtraction underflows and the call traps.
C34_AsStated ==
    [][FromPtrStep =>
        \A c \in handles :
            /\ (get_ptr(c) < CELL_META_SIZE /\ NeighborOf(last', c, Start)) =>
                   (~last'.trapped /\ last'.ret = None)
            /\ (get_next_neighbor_ptr(c) = StoreEnd /\ NeighborOf(last', c, End)) =>
                   (~last'.trapped /\ last'.ret = None)]_vars
----------------------------------------------------------------------------
(* C35 *)

\* ceil(log2(x)): the least L with x <= 2^L
CeilLog2(x) ==
    CHOOSE L \in 0..USIZE_BITS :
        /\ ~usize_lt({L}, x)
        /\ \A M \in 0..(L - 1) : usize_lt({M}, x)

\* C35: for every payload size s with 16 <= s < 2^63, get_seg_class_id(s) is
\* max(0, ceil(log2(s)) - 4), which is below the class count 60; s = 2^(k+4)
\* is of class k and s = 2^(k+4) + 1 of class k + 1.
C35_ClassId ==
    last.op = "get_seg_class_id" =>
        /\ last.ret.v = IF CeilLog2(last.size) > 4 THEN CeilLog2(last.size) - 4 ELSE 0
        /\ last.ret.v < SEG_CLASS_PTRS_COUNT
        /\ \A k \in 0..(SEG_CLASS_PTRS_COUNT - 2) :
               /\ last.size = {k + 4} => last.ret.v = k
               /\ last.size = {k + 4, 0} => last.ret.v = k + 1
        /\ top_bit(last.size) < 31 =>
               get_seg_class_id(usize_value(last.size)) = last.ret.v

\* the class of 2^62 + 1 is the last class
C35_Witness ==
    /\ last.op = "get_seg_class_id"
    /\ last.size = {USIZE_BITS - 2, 0}
    /\ last.ret.v = SEG_CLASS_PTRS_COUNT - 1
----------------------------------------------------------------------------
(* C36 *)

\* the step is a pop of a heap that holds no element
PopEmptyStep == last'.op = "pop" /\ calls' = calls + 1 /\ sma.arr = <<>>

\* C36: pop on an empty SBinaryHeap, one that was never filled or one that
\* earlier pops have emptied, returns None and leaves the heap empty, without
\* trapping.  The implementation tests len == 1 only: with len == 0 it goes on
\* to swap(0, len - 1) and arr.pop().unwrap(), and traps.
C36_AsStated ==
    [][PopEmptyStep => (last'.ret = None /\ sma'.arr = <<>>)]_vars

====
